---- MODULE Spec2Model ----
(***************************************************************************)
(* Move selection of chess-arena: the alpha-beta engine                    *)
(* (engine/agents/minimax_agent.py) and the MCTS engine                    *)
(* (engine/agents/mcts_agent.py) behind the agents' select_move.           *)
(* Around them: the Game object (engine/game.py), the endpoints of the     *)
(* service (main.py), the LLM agent (agents/llm_agent.py) and the          *)
(* play_move tool of the MCP server (mcp/server.py).                       *)
(*                                                                         *)
(* The chess rules come from python-chess, which is not part of the        *)
(* repository.  Here it is a finite game graph of abstract positions,      *)
(* each with a number of legal moves (numbered in the order legal_moves    *)
(* enumerates them), a status, a material total, and the attributes of the *)
(* moves that arrive in it.  Init draws the graph, so every property is    *)
(* checked for every such game.                                            *)
(***************************************************************************)
EXTENDS Integers, Sequences, FiniteSets, TLC

VARIABLES
    game,       \* the rules oracle's answers (fixed during a behaviour)
    agent,      \* which agent's select_move is called: "minimax", "mcts", "llm"
    heap,       \* board objects by reference: heap[ref] is a chess.Board
    searchRef,  \* the reference the engine works on ("none" before the call)
    pc,         \* position of the call in its code
    depth,      \* MinimaxAgent.depth
    ab,         \* locals of _search_root
    outcome,    \* what select_move gave back: a move or a raised ValueError
    rng,        \* the state of the random generator (module random)
    now,        \* time.monotonic(), in ticks
    time_limit, \* MCTSAgent.time_limit, in ticks
    tree,       \* the MCTS nodes, root first; links are indices
    mc,         \* locals of _mcts_search
    run,        \* 1 in the first call, 2 in a repeated call
    first,      \* what the first call ended with, kept for the second
    parked,     \* a concurrent call's own state while its thread is not running
    probe,      \* a pure function's arguments and result, when called on its own
    AGENT_REGISTRY, \* main.py _AGENT_REGISTRY: the names of the registered agents
    GAMES,      \* main.py _GAMES: the Game objects by game id
    requests,   \* the make_move requests of the service, by client
    mcp         \* the play_move call of the MCP server

abVars == <<depth, ab>>

serveVars == <<AGENT_REGISTRY, GAMES, requests, mcp>>

mctsVars == <<rng, now, time_limit, tree, mc, run, first, parked, probe, serveVars>>

vars == <<game, agent, heap, searchRef, pc, depth, ab, outcome,
          rng, now, time_limit, tree, mc, run, first, parked, probe, serveVars>>

-----------------------------------------------------------------------------
(* Bounds of the model *)

\* largest number of legal moves of a position
MaxMoves == 2
\* largest configured search depth of the alpha-beta agent
MaxDepth == 3
\* largest configured time limit of the MCTS agent, in clock ticks
MaxTime == 4
\* longest time one MCTS iteration takes, in clock ticks (at least one)
MaxTick == 2
\* sys.getrecursionlimit(), counted in plies below the root
RecursionLimit == 6
\* largest number of pieces of the placements drawn on the chosen squares
MaxPieces == 2

-----------------------------------------------------------------------------
(* Program constants *)

CHECKMATE_SCORE == 100000

WHITE == TRUE
BLACK == FALSE

PAWN == "PAWN"
KNIGHT == "KNIGHT"
BISHOP == "BISHOP"
ROOK == "ROOK"
QUEEN == "QUEEN"
KING == "KING"
None == "None"

PieceTypes == {PAWN, KNIGHT, BISHOP, ROOK, QUEEN, KING}

\* piece values with a queen worth twenty pawns
PieceValuesHeavyQueen(pt) ==
    CASE pt = PAWN -> 100
      [] pt = KNIGHT -> 320
      [] pt = BISHOP -> 330
      [] pt = ROOK -> 500
      [] pt = QUEEN -> 2000
      [] pt = KING -> 0

PIECE_VALUES(pt) ==
    CASE pt = PAWN -> 100
      [] pt = KNIGHT -> 320
      [] pt = BISHOP -> 330
      [] pt = ROOK -> 500
      [] pt = QUEEN -> 900
      [] pt = KING -> 0

\* PIECE_VALUES.get(pt, 0)
PieceValueOrZero(pt) == IF pt \in PieceTypes THEN PIECE_VALUES(pt) ELSE 0

-----------------------------------------------------------------------------
(* Piece-square tables: the lists of minimax_agent.py, index 0 first *)

PAWN_TABLE ==
    <<  0,   0,   0,   0,   0,   0,   0,   0,
       50,  50,  50,  50,  50,  50,  50,  50,
       10,  10,  20,  30,  30,  20,  10,  10,
        5,   5,  10,  25,  25,  10,   5,   5,
        0,   0,   0,  20,  20,   0,   0,   0,
        5,  -5, -10,   0,   0, -10,  -5,   5,
        5,  10,  10, -20, -20,  10,  10,   5,
        0,   0,   0,   0,   0,   0,   0,   0>>

KNIGHT_TABLE ==
    <<-50, -40, -30, -30, -30, -30, -40, -50,
      -40, -20,   0,   0,   0,   0, -20, -40,
      -30,   0,  10,  15,  15,  10,   0, -30,
      -30,   5,  15,  20,  20,  15,   5, -30,
      -30,   0,  15,  20,  20,  15,   0, -30,
      -30,   5,  10,  15,  15,  10,   5, -30,
      -40, -20,   0,   5,   5,   0, -20, -40,
      -50, -40, -30, -30, -30, -30, -40, -50>>

BISHOP_TABLE ==
    <<-20, -10, -10, -10, -10, -10, -10, -20,
      -10,   0,   0,   0,   0,   0,   0, -10,
      -10,   0,  10,  10,  10,  10,   0, -10,
      -10,   5,   5,  10,  10,   5,   5, -10,
      -10,   0,   5,  10,  10,   5,   0, -10,
      -10,  10,  10,  10,  10,  10,  10, -10,
      -10,   5,   0,   0,   0,   0,   5, -10,
      -20, -10, -10, -10, -10, -10, -10, -20>>

ROOK_TABLE ==
    <<  0,   0,   0,   0,   0,   0,   0,   0,
        5,  10,  10,  10,  10,  10,  10,   5,
       -5,   0,   0,   0,   0,   0,   0,  -5,
       -5,   0,   0,   0,   0,   0,   0,  -5,
       -5,   0,   0,   0,   0,   0,   0,  -5,
       -5,   0,   0,   0,   0,   0,   0,  -5,
       -5,   0,   0,   0,   0,   0,   0,  -5,
        0,   0,   0,   5,   5,   0,   0,   0>>

QUEEN_TABLE ==
    <<-20, -10, -10,  -5,  -5, -10, -10, -20,
      -10,   0,   0,   0,   0,   0,   0, -10,
      -10,   0,   5,   5,   5,   5,   0, -10,
       -5,   0,   5,   5,   5,   5,   0,  -5,
        0,   0,   5,   5,   5,   5,   0,  -5,
      -10,   5,   5,   5,   5,   5,   0, -10,
      -10,   0,   5,   0,   0,   0,   0, -10,
      -20, -10, -10,  -5,  -5, -10, -10, -20>>

KING_TABLE_MIDDLEGAME ==
    <<-30, -40, -40, -50, -50, -40, -40, -30,
      -30, -40, -40, -50, -50, -40, -40, -30,
      -30, -40, -40, -50, -50, -40, -40, -30,
      -30, -40, -40, -50, -50, -40, -40, -30,
      -20, -30, -30, -40, -40, -30, -30, -20,
      -10, -20, -20, -20, -20, -20, -20, -10,
       20,  20,   0,   0,   0,   0,  20,  20,
       20,  30,  10,   0,   0,  10,  30,  20>>

PST(pt) ==
    CASE pt = PAWN -> PAWN_TABLE
      [] pt = KNIGHT -> KNIGHT_TABLE
      [] pt = BISHOP -> BISHOP_TABLE
      [] pt = ROOK -> ROOK_TABLE
      [] pt = QUEEN -> QUEEN_TABLE
      [] pt = KING -> KING_TABLE_MIDDLEGAME

\* chess.SQUARES: a1 = 0 .. h8 = 63, rank sq \div 8 and file sq % 8
SQUARES == 0 .. 63

\* _MIRROR[sq]: flip the rank, keep the file
MIRROR(sq) == ((7 - (sq \div 8)) * 8) + (sq % 8)

\* the lists are indexed from 0, tuples from 1
PST_WHITE(pt, sq) == PST(pt)[MIRROR(sq) + 1]

\* Black's bonuses read like White's
PstBlackAsWhite(pt, sq) == PST(pt)[MIRROR(sq) + 1]

PST_BLACK(pt, sq) == PST(pt)[sq + 1]

\* chess.Piece
Pieces == [color : {WHITE, BLACK}, piece_type : PieceTypes]

\* one pass of the loop of evaluate: what square sq of the piece placement
\* pl (a function from the occupied squares to their pieces) adds to score
ScoreSquare(pl, sq) ==
    IF sq \notin DOMAIN pl THEN 0
    ELSE LET piece == pl[sq]
             value == PIECE_VALUES(piece.piece_type)
         IN  IF piece.color = WHITE
             THEN value + PST_WHITE(piece.piece_type, sq)
             ELSE -(value + PST_BLACK(piece.piece_type, sq))

\* what the passes for the squares lo .. hi add, in ascending order
RECURSIVE ScoreSquares(_, _, _)
ScoreSquares(pl, lo, hi) ==
    IF lo = hi THEN ScoreSquare(pl, lo)
    ELSE ScoreSquares(pl, lo, (lo + hi) \div 2)
         + ScoreSquares(pl, (lo + hi) \div 2 + 1, hi)

\* the loop over chess.SQUARES, score starting at 0
PlacementScore(pl) == 0 + ScoreSquares(pl, 0, 63)

-----------------------------------------------------------------------------
(* The rules oracle (python-chess) as a finite game graph *)

\* the abstract positions of the game graph; the call starts in 0
Positions == {0, 1, 2}

\* status of a position:
\*   "mate"  the side to move is checkmated (no legal move, in check)
\*   "stale" stalemate (no legal move, not in check)
\*   "dead"  drawn and over although moves exist (insufficient material,
\*           seventy-five moves, fivefold repetition)
\*   "claim" a draw can be claimed, the game is not over
\*   "play"  none of these
Statuses == {"mate", "stale", "dead", "claim", "play"}

\* attributes of a move as _move_order_key reads them
Quiet == [capture |-> FALSE, victim |-> None, aggressor |-> PAWN, promotion |-> None]
PawnTakesQueen == [capture |-> TRUE, victim |-> QUEEN, aggressor |-> PAWN, promotion |-> None]

\* White-perspective totals of material and piece-square bonuses drawn for
\* the positions
Scores == {-320, 100}

\* chess.Board: the position, the side to move and the move stack
Board(c, t) == [pos |-> c, turn |-> t, stack |-> <<>>]

NoBoard == [pos |-> -1, turn |-> WHITE, stack |-> <<>>]

\* the position a move leads to
Succ(c, m) == (c * 2 + m) % Cardinality(Positions)

\* a generator of pseudo-legal moves: one move too many
LegalMovesPseudo(g, b) == [i \in 1 .. (g[b.pos].n + 1) |-> i]

\* list(board.legal_moves)
LegalMoves(g, b) == [i \in 1 .. g[b.pos].n |-> i]

\* board.push(move)
Push(b, m) ==
    [pos |-> Succ(b.pos, m), turn |-> ~b.turn,
     stack |-> Append(b.stack, [pos |-> b.pos, move |-> m])]

\* board.pop()
Pop(b) ==
    [pos |-> b.stack[Len(b.stack)].pos, turn |-> ~b.turn,
     stack |-> SubSeq(b.stack, 1, Len(b.stack) - 1)]

IsCheckmate(g, b) == g[b.pos].status = "mate"

IsStalemate(g, b) == g[b.pos].status = "stale"

IsInsufficientMaterial(g, b) == g[b.pos].status = "dead"

CanClaimDraw(g, b) == g[b.pos].status \in {"dead", "claim"}

\* board.is_game_over()
IsGameOver(g, b) == g[b.pos].status \in {"mate", "stale", "dead"}

\* board.is_check(): the side to move is in check
IsCheck(g, b) == g[b.pos].check

\* the attributes of move m in position b
MoveAttr(g, b, m) == g[Succ(b.pos, m)].mv

\* board.copy()
CopyBoard(b) == b

-----------------------------------------------------------------------------
(* Evaluation: minimax_agent.py evaluate *)

\* the loop over the squares: piece values and piece-square bonuses, added
\* for White and subtracted for Black
MaterialAndPst(g, b) == g[b.pos].score

\* an evaluation always from White's point of view
EvaluateWhiteView(g, b) ==
    IF IsCheckmate(g, b) THEN -CHECKMATE_SCORE
    ELSE IF IsStalemate(g, b) \/ IsInsufficientMaterial(g, b) \/ CanClaimDraw(g, b)
         THEN 0
    ELSE MaterialAndPst(g, b)

Evaluate(g, b) ==
    IF IsCheckmate(g, b) THEN -CHECKMATE_SCORE
    ELSE IF IsStalemate(g, b) \/ IsInsufficientMaterial(g, b) \/ CanClaimDraw(g, b)
         THEN 0
    ELSE IF b.turn = BLACK THEN -MaterialAndPst(g, b)
    ELSE MaterialAndPst(g, b)

-----------------------------------------------------------------------------
(* Move ordering: _move_order_key and _ordered_moves *)

\* a key that ranks captures by victim value minus aggressor value
MoveOrderKeyDifference(g, b, m) ==
    LET a == MoveAttr(g, b, m)
        pushed == Push(b, m)
        base ==
            IF a.capture
            THEN LET victim_val == IF a.victim # None
                                   THEN PieceValueOrZero(a.victim)
                                   ELSE PIECE_VALUES(PAWN)
                     aggressor_val == PieceValueOrZero(a.aggressor)
                 IN  -(victim_val - aggressor_val) - 20000
            ELSE IF IsCheck(g, pushed) THEN -10000 ELSE 0
        key == IF a.promotion # None
               THEN base - PieceValueOrZero(a.promotion)
               ELSE base
    IN  [key |-> key, board |-> IF a.capture THEN b ELSE Pop(pushed)]

\* the key of a move, and the board after the speculative push and pop
MoveOrderKey(g, b, m) ==
    LET a == MoveAttr(g, b, m)
        pushed == Push(b, m)
        base ==
            IF a.capture
            THEN LET victim_val == IF a.victim # None
                                   THEN PieceValueOrZero(a.victim)
                                   ELSE PIECE_VALUES(PAWN)
                     aggressor_val == PieceValueOrZero(a.aggressor)
                 IN  -(10 * victim_val - aggressor_val) - 20000
            ELSE IF IsCheck(g, pushed) THEN -10000 ELSE 0
        key == IF a.promotion # None
               THEN base - PieceValueOrZero(a.promotion)
               ELSE base
    IN  [key |-> key, board |-> IF a.capture THEN b ELSE Pop(pushed)]

RECURSIVE InsertByKey(_, _, _)

\* an insertion that keeps one move per key, as a table indexed by the key
\* would: a move whose key is already there is lost
InsertByKeyUnique(sorted, x, key) ==
    IF \E j \in 1 .. Len(sorted) : key[sorted[j]] = key[x] THEN sorted
    ELSE IF sorted = <<>> THEN <<x>>
    ELSE IF key[sorted[Len(sorted)]] <= key[x] THEN Append(sorted, x)
    ELSE Append(InsertByKey(SubSeq(sorted, 1, Len(sorted) - 1), x, key),
                sorted[Len(sorted)])

\* an insertion in front of the elements with the same key: not stable
InsertByKeyUnstable(sorted, x, key) ==
    IF sorted = <<>> THEN <<x>>
    ELSE IF key[sorted[Len(sorted)]] < key[x] THEN Append(sorted, x)
    ELSE Append(InsertByKey(SubSeq(sorted, 1, Len(sorted) - 1), x, key),
                sorted[Len(sorted)])

\* list.sort(key=...): stable, ascending.  Insert x behind every element
\* whose key is not larger.
InsertByKey(sorted, x, key) ==
    IF sorted = <<>> THEN <<x>>
    ELSE IF key[sorted[Len(sorted)]] <= key[x] THEN Append(sorted, x)
    ELSE Append(InsertByKey(SubSeq(sorted, 1, Len(sorted) - 1), x, key),
                sorted[Len(sorted)])

RECURSIVE SortFrom(_, _, _, _)
SortFrom(sorted, moves, i, key) ==
    IF i > Len(moves) THEN sorted
    ELSE SortFrom(InsertByKey(sorted, moves[i], key), moves, i + 1, key)

SortByKey(moves, key) == SortFrom(<<>>, moves, 1, key)

\* the keys of the legal moves, the board threaded through every push/pop
RECURSIVE KeysFrom(_, _, _, _, _)
KeysFrom(g, b, moves, i, keys) ==
    IF i > Len(moves) THEN [keys |-> keys, board |-> b]
    ELSE LET k == MoveOrderKey(g, b, moves[i])
         IN  KeysFrom(g, k.board, moves, i + 1, Append(keys, k.key))

OrderedMoves(g, b) ==
    LET moves == LegalMoves(g, b)
        ks == KeysFrom(g, b, moves, 1, <<>>)
    IN  [moves |-> SortByKey(moves, ks.keys), board |-> ks.board]

-----------------------------------------------------------------------------
(* Negamax with alpha-beta pruning: _negamax *)

\* The result carries the board as the call leaves it, the number of
\* _negamax calls made and the number of positions evaluated.
RECURSIVE Negamax(_, _, _, _, _)
RECURSIVE NegamaxLoop(_, _, _, _, _, _, _, _, _, _)

\* the recursive call given the window (-alpha, -beta): not swapped
NegamaxLoopUnswapped(g, b, moves, i, d, alpha, beta, best, calls, evals) ==
    IF i > Len(moves)
    THEN [score |-> best, board |-> b, calls |-> calls, evals |-> evals,
          deepest |-> Len(b.stack), raised |-> FALSE]
    ELSE LET r == Negamax(g, Push(b, moves[i]), d - 1, -alpha, -beta)
             score == -r.score
             b2 == Pop(r.board)
             best2 == IF score > best THEN score ELSE best
             alpha2 == IF best2 > alpha THEN best2 ELSE alpha
         IN  IF r.raised
             THEN [score |-> 0, board |-> r.board, calls |-> calls + r.calls,
                   evals |-> evals + r.evals, deepest |-> r.deepest,
                   raised |-> TRUE]
             ELSE IF alpha2 >= beta
             THEN [score |-> best2, board |-> b2,
                   calls |-> calls + r.calls, evals |-> evals + r.evals,
                   deepest |-> r.deepest, raised |-> FALSE]
             ELSE LET rest == NegamaxLoop(g, b2, moves, i + 1, d, alpha2, beta,
                                          best2, calls + r.calls,
                                          evals + r.evals)
                  IN  [rest EXCEPT !.deepest = IF r.deepest > @ THEN r.deepest ELSE @]

NegamaxLoop(g, b, moves, i, d, alpha, beta, best, calls, evals) ==
    IF i > Len(moves)
    THEN [score |-> best, board |-> b, calls |-> calls, evals |-> evals,
          deepest |-> Len(b.stack), raised |-> FALSE]
    ELSE LET r == Negamax(g, Push(b, moves[i]), d - 1, -beta, -alpha)
             score == -r.score
             b2 == Pop(r.board)
             best2 == IF score > best THEN score ELSE best
             alpha2 == IF best2 > alpha THEN best2 ELSE alpha
         IN  IF r.raised
             THEN [score |-> 0, board |-> r.board, calls |-> calls + r.calls,
                   evals |-> evals + r.evals, deepest |-> r.deepest,
                   raised |-> TRUE]
             ELSE IF alpha2 >= beta
             THEN [score |-> best2, board |-> b2,
                   calls |-> calls + r.calls, evals |-> evals + r.evals,
                   deepest |-> r.deepest, raised |-> FALSE]
             ELSE LET rest == NegamaxLoop(g, b2, moves, i + 1, d, alpha2, beta,
                                          best2, calls + r.calls,
                                          evals + r.evals)
                  IN  [rest EXCEPT !.deepest = IF r.deepest > @ THEN r.deepest ELSE @]

\* deepest is the largest number of plies below the root the call reached;
\* raised says that it ended with a RecursionError, the call stack being full
Negamax(g, b, d, alpha, beta) ==
    IF d = 0 \/ IsGameOver(g, b)
    THEN [score |-> Evaluate(g, b), board |-> b, calls |-> 1, evals |-> 1,
          deepest |-> Len(b.stack), raised |-> FALSE]
    ELSE IF Len(b.stack) >= RecursionLimit
    THEN [score |-> 0, board |-> b, calls |-> 1, evals |-> 0,
          deepest |-> Len(b.stack), raised |-> TRUE]
    ELSE LET om == OrderedMoves(g, b)
         IN  NegamaxLoop(g, om.board, om.moves, 1, d, alpha, beta,
                         -CHECKMATE_SCORE - 1, 1, 0)

\* _search_root as a function of the position and the depth: the root loop
\* of lines 273-282 run to its end
RECURSIVE SearchRootLoop(_, _, _, _, _, _, _, _, _)
SearchRootLoop(g, b, moves, i, d, alpha, best_score, best_move, calls) ==
    IF i > Len(moves)
    THEN [move |-> best_move, score |-> best_score, calls |-> calls]
    ELSE LET r == Negamax(g, Push(b, moves[i]), d - 1,
                          -(CHECKMATE_SCORE + 1), -alpha)
             score == -r.score
             better == score > best_score
         IN  SearchRootLoop(g, Pop(r.board), moves, i + 1, d,
                            IF score > alpha THEN score ELSE alpha,
                            IF better THEN score ELSE best_score,
                            IF better THEN moves[i] ELSE best_move,
                            calls + r.calls)

\* for a position with a legal move
SearchRoot(g, b, d) ==
    LET om == OrderedMoves(g, b)
    IN  SearchRootLoop(g, om.board, om.moves, 1, d, -CHECKMATE_SCORE - 1,
                       -CHECKMATE_SCORE - 1, om.moves[1], 0)

-----------------------------------------------------------------------------
(* Random numbers: module random, as shuffle and choice use it *)

\* a generator that mixes the clock into what it returns
RandBelowClock(r, k) == (r.seq[r.cur] + now) % k

\* The generator is a deterministic stream: rng.seq, repeated for ever;
\* rng.cur is the next element.  randbelow(k) takes one element.
RandBelow(r, k) == r.seq[r.cur] % k

Advance(r) == [r EXCEPT !.cur = (r.cur % Len(r.seq)) + 1]

Swap(xs, i, j) ==
    [k \in 1 .. Len(xs) |->
        IF k = i THEN xs[j] ELSE IF k = j THEN xs[i] ELSE xs[k]]

\* random.shuffle(xs): for i from the last index down to the second,
\* swap xs[i] with xs[randbelow(i + 1)] (indices from 0 in the code)
RECURSIVE ShuffleFrom(_, _, _)
ShuffleFrom(xs, i, r) ==
    IF i < 2 THEN [list |-> xs, rng |-> r]
    ELSE ShuffleFrom(Swap(xs, i, 1 + RandBelow(r, i)), i - 1, Advance(r))

Shuffle(xs, r) == ShuffleFrom(xs, Len(xs), r)

\* random.choice(xs)
Choice(xs, r) == [value |-> xs[1 + RandBelow(r, Len(xs))], rng |-> Advance(r)]

-----------------------------------------------------------------------------
(* MCTS: mcts_agent.py.  Values are in thousandths (1.0 is 1000). *)

\* a cutoff one ply later
RolloutDepthLong == 40 + 1

\* _ROLLOUT_DEPTH
ROLLOUT_DEPTH == 40

\* _UCB1_C = 1.41, in thousandths
UCB1_C == 1410

\* math.tanh(score / 1000.0) for the material totals the games hold
TanhMilli(x) ==
    CASE x = 0 -> 0
      [] x = 100 -> 100
      [] x = -100 -> -100
      [] x = 900 -> 716
      [] x = -900 -> -716

\* math.log(n) in thousandths
LogMilli(k) ==
    <<0, 693, 1099, 1386, 1609, 1792, 1946, 2079, 2197, 2303>>[k]

\* the integer square root
ISqrt(x) == CHOOSE k \in 0 .. 2000 : k * k <= x /\ x < (k + 1) * (k + 1)

\* _material_eval: the sum of the piece values, White's minus Black's,
\* through tanh
MaterialEval(g, b) == TanhMilli(g[b.pos].material)

\* _MCTSNode.__init__: the untried moves are the legal moves, shuffled
NewNode(g, b, parent, move, r) ==
    LET sh == Shuffle(LegalMoves(g, b), r)
    IN  [node |-> [board |-> b, parent |-> parent, move |-> move,
                   children |-> <<>>, untried_moves |-> sh.list,
                   visits |-> 0, total_value |-> 0],
         rng |-> sh.rng]

IsFullyExpanded(nd) == Len(nd.untried_moves) = 0

IsTerminal(g, nd) == IsGameOver(g, nd.board)

\* _ucb1: infinite for an unvisited child
Ucb1(nd, parent_visits) ==
    IF nd.visits = 0 THEN [inf |-> TRUE, value |-> 0]
    ELSE [inf |-> FALSE,
          value |-> (nd.total_value \div nd.visits)
                    + (UCB1_C * ISqrt((LogMilli(parent_visits) * 1000) \div nd.visits))
                      \div 1000]

UcbGreater(a, b) == IF a.inf THEN ~b.inf ELSE (~b.inf /\ a.value > b.value)

\* max(children, key=...): the first child with the largest key
RECURSIVE MaxChildFrom(_, _, _, _, _)
MaxChildFrom(t, children, i, parent_n, best) ==
    IF i > Len(children) THEN best
    ELSE MaxChildFrom(t, children, i + 1, parent_n,
            IF UcbGreater(Ucb1(t[children[i]], parent_n), Ucb1(t[best], parent_n))
            THEN children[i] ELSE best)

\* _select
RECURSIVE Select(_, _, _)
Select(g, t, idx) ==
    IF ~IsTerminal(g, t[idx]) /\ IsFullyExpanded(t[idx])
    THEN Select(g, t, MaxChildFrom(t, t[idx].children, 2, t[idx].visits,
                                   t[idx].children[1]))
    ELSE idx

\* _expand that leaves the move in untried_moves
ExpandKeepsUntried(g, t, idx, r) ==
    LET nd == t[idx]
        move == nd.untried_moves[Len(nd.untried_moves)]
        child_board == Push(CopyBoard(nd.board), move)
        made == NewNode(g, child_board, idx, move, r)
        child == Len(t) + 1
    IN  [tree |-> Append([t EXCEPT ![idx].children = Append(@, child)],
                         made.node),
         node |-> child, rng |-> made.rng]

\* _expand
Expand(g, t, idx, r) ==
    LET nd == t[idx]
        move == nd.untried_moves[Len(nd.untried_moves)]
        child_board == Push(CopyBoard(nd.board), move)
        made == NewNode(g, child_board, idx, move, r)
        child == Len(t) + 1
    IN  [tree |-> Append([t EXCEPT ![idx].untried_moves =
                                       SubSeq(@, 1, Len(@) - 1),
                                   ![idx].children = Append(@, child)],
                         made.node),
         node |-> child, rng |-> made.rng]

\* sim.result() of a finished game
Result(g, b) ==
    IF IsCheckmate(g, b) THEN (IF b.turn = BLACK THEN "1-0" ELSE "0-1")
    ELSE "1/2-1/2"

\* _rollout: random moves on a copy until the game is over or the cutoff
RECURSIVE RolloutFrom(_, _, _, _)
RolloutFrom(g, sim, d, r) ==
    IF ~IsGameOver(g, sim) /\ d < ROLLOUT_DEPTH
    THEN LET c == Choice(LegalMoves(g, sim), r)
         IN  RolloutFrom(g, Push(sim, c.value), d + 1, c.rng)
    ELSE [result |-> IF IsGameOver(g, sim)
                     THEN (IF Result(g, sim) = "1-0" THEN 1000
                           ELSE IF Result(g, sim) = "0-1" THEN -1000
                           ELSE 0)
                     ELSE MaterialEval(g, sim),
          rng |-> r, plies |-> d, sim |-> sim]

Rollout(g, b, r) == RolloutFrom(g, CopyBoard(b), 0, r)

\* the update with the two signs exchanged
BackpropNodeFlipped(nd, result_white) ==
    [nd EXCEPT !.visits = @ + 1,
               !.total_value = IF nd.board.turn = BLACK
                               THEN @ - result_white
                               ELSE @ + result_white]

\* the update of the value alone, the visit not counted
BackpropNodeNoVisit(nd, result_white) ==
    [nd EXCEPT !.total_value = IF nd.board.turn = BLACK
                               THEN @ + result_white
                               ELSE @ - result_white]

\* one node's update in _backpropagate
BackpropNode(nd, result_white) ==
    [nd EXCEPT !.visits = @ + 1,
               !.total_value = IF nd.board.turn = BLACK
                               THEN @ + result_white
                               ELSE @ - result_white]

\* an update of the simulated node alone, without the walk to the root
BackpropagateLeafOnly(t, idx, result_white) ==
    [t EXCEPT ![idx] = BackpropNode(t[idx], result_white)]

\* _backpropagate: from the node up to the root (parent 0 is None)
RECURSIVE Backpropagate(_, _, _)
Backpropagate(t, idx, result_white) ==
    IF idx = 0 THEN t
    ELSE Backpropagate([t EXCEPT ![idx] = BackpropNode(t[idx], result_white)],
                       t[idx].parent, result_white)

\* n iterations of the loop of _mcts_search, lines 204-216, one after the
\* other
RECURSIVE MctsIterate(_, _, _, _)
MctsIterate(g, t, r, n) ==
    IF n = 0 THEN [tree |-> t, rng |-> r]
    ELSE LET node == Select(g, t, 1)
             e == IF ~IsTerminal(g, t[node]) /\ ~IsFullyExpanded(t[node])
                  THEN Expand(g, t, node, r)
                  ELSE [tree |-> t, node |-> node, rng |-> r]
             ro == Rollout(g, e.tree[e.node].board, e.rng)
         IN  MctsIterate(g, Backpropagate(e.tree, e.node, ro.result),
                         ro.rng, n - 1)

\* the tree _mcts_search builds in n iterations when nothing else draws
\* from the generator
MctsAlone(g, b, r, n) ==
    LET made == NewNode(g, CopyBoard(b), 0, 0, r)
    IN  MctsIterate(g, <<made.node>>, made.rng, n)

RECURSIVE MostVisitedFrom(_, _, _, _)

\* the child with the largest accumulated value instead
MostValuedFrom(t, children, i, best) ==
    IF i > Len(children) THEN best
    ELSE MostVisitedFrom(t, children, i + 1,
            IF t[children[i]].total_value > t[best].total_value
            THEN children[i] ELSE best)

\* max(root.children, key=lambda c: c.visits): the first most-visited child
MostVisitedFrom(t, children, i, best) ==
    IF i > Len(children) THEN best
    ELSE MostVisitedFrom(t, children, i + 1,
            IF t[children[i]].visits > t[best].visits THEN children[i] ELSE best)

MostVisited(t, children) == MostVisitedFrom(t, children, 2, children[1])

-----------------------------------------------------------------------------
(* The games Init draws *)

\* what the oracle can consistently say about one position
WellFormedPos(p) ==
    /\ (p.n = 0) <=> (p.status \in {"mate", "stale"})
    /\ (p.status = "mate") => p.check
    /\ (p.status = "stale") => ~p.check

\* positions of the games the alpha-beta agent is run on
PosSpecsAB ==
    {p \in [n : 0 .. MaxMoves, status : {"mate", "stale", "dead", "play"},
            check : BOOLEAN, score : Scores \cup {0}, material : {0},
            mv : {Quiet, PawnTakesQueen}] :
        /\ WellFormedPos(p)
        /\ p.check = (p.status = "mate")
        /\ (p.score # 0) = (p.status = "play")}

GamesAB == [Positions -> PosSpecsAB]

\* material totals (White's minus Black's) drawn for the MCTS games
Materials == {-900}

\* positions of the games the MCTS agent is run on
PosSpecsMCTS ==
    {p \in [n : 0 .. MaxMoves, status : {"mate", "stale", "dead", "play"},
            check : BOOLEAN, score : {0}, material : Materials \cup {0},
            mv : {Quiet}] :
        /\ WellFormedPos(p)
        /\ p.check = (p.status = "mate")
        /\ (p.material # 0) = (p.status = "play")}

GamesMCTS == [Positions -> PosSpecsMCTS]

\* the random generator's possible outputs: streams of period 2
Streams == [{1, 2} -> 0 .. (MaxMoves - 1)]

-----------------------------------------------------------------------------
(* State before the call *)

Refs == {"caller", "copy"}

NoLocals ==
    [moves |-> <<>>, i |-> 0, best_move |-> 0, best_score |-> 0,
     alpha |-> 0, beta |-> 0, score |-> 0, calls |-> 0, evals |-> 0,
     deepest |-> 0]

NoOutcome == [kind |-> "none", move |-> 0]

NoRng == [seq |-> <<0, 0>>, cur |-> 1]

\* rng0 records the generator's state when the search built its root
NoMcts ==
    [legal |-> <<>>, deadline |-> 0, iterations |-> 0, node |-> 0,
     result_white |-> 0, rollouts |-> 0, rng0 |-> NoRng]

\* no concurrent call
NoParked ==
    [agent |-> "none", copy |-> NoBoard, searchRef |-> "none", pc |-> "idle",
     ab |-> NoLocals, outcome |-> NoOutcome, tree |-> <<>>, mc |-> NoMcts]

\* no pure function called on its own
NoProbe == [op |-> "none"]

\* the clients that send make_move requests: two HTTP clients and the MCP
\* server
Clients == {"c1", "c2", "mcp"}

NoMove == [by |-> WHITE, i |-> 0]

\* no request of the client in the service
NoRequest ==
    [st |-> "idle", game_id |-> "", agent_name |-> "", copy |-> NoBoard,
     status |-> 0, detail |-> "", move |-> NoMove, applied_to |-> NoBoard]

\* no play_move call in the MCP server
NoMcp ==
    [st |-> "idle", game_id |-> "", move |-> <<"", 0>>, valid |-> FALSE,
     reply |-> [error |-> FALSE, status_code |-> 0, move |-> <<"", 0>>]]

\* the service is not running
NoService ==
    /\ AGENT_REGISTRY = {}
    /\ GAMES = <<>>
    /\ requests = [c \in Clients |-> NoRequest]
    /\ mcp = NoMcp

NoFirst ==
    [tree |-> <<>>, outcome |-> NoOutcome, iterations |-> 0, rollouts |-> 0,
     rng |-> NoRng]

\* the caller's board, and no copy yet
InitCall(turns) ==
    /\ \E t \in turns :
          heap = [r \in Refs |-> IF r = "caller" THEN Board(0, t) ELSE NoBoard]
    /\ searchRef = "none"
    /\ pc = "idle"
    /\ outcome = NoOutcome
    /\ ab = NoLocals
    /\ tree = <<>>
    /\ mc = NoMcts
    /\ now = 0
    /\ run = 1
    /\ first = NoFirst
    /\ parked = NoParked
    /\ probe = NoProbe
    /\ NoService

InitAB ==
    /\ InitCall({WHITE})
    /\ game \in GamesAB
    /\ agent = "minimax"
    /\ depth \in 1 .. MaxDepth
    /\ rng = NoRng
    /\ time_limit = 0

InitMCTS ==
    /\ InitCall({WHITE, BLACK})
    /\ game \in GamesMCTS
    /\ agent = "mcts"
    /\ depth = 0
    /\ rng \in [seq : Streams, cur : {1}]
    /\ time_limit \in {0, MaxTime}

-----------------------------------------------------------------------------
(* The call: MinimaxAgent.select_move and _search_root *)

\* no copy: the engine is handed the caller's own board
MinimaxNoCopyRef == "caller"

\* board_copy = board.copy(): a new object
MinimaxCopyRef == "copy"

\* select_move: copy the board, run _search_root on the copy
MinimaxSelectMove ==
    /\ pc = "idle"
    /\ agent = "minimax"
    /\ searchRef' = MinimaxCopyRef
    /\ heap' = [heap EXCEPT ![MinimaxCopyRef] = CopyBoard(heap["caller"])]
    /\ pc' = "search_root"
    /\ UNCHANGED <<game, agent, depth, ab, outcome, mctsVars>>

\* _search_root without the check for an empty move list: it falls through
\* its loop and returns None
SearchRootEnterNoRaise ==
    /\ pc = "search_root"
    /\ LET om == OrderedMoves(game, heap[searchRef])
       IN  /\ heap' = [heap EXCEPT ![searchRef] = om.board]
           /\ ab' = [moves |-> om.moves, i |-> 1,
                     best_move |-> IF om.moves = <<>> THEN 0 ELSE om.moves[1],
                     best_score |-> -CHECKMATE_SCORE - 1,
                     alpha |-> -CHECKMATE_SCORE - 1,
                     beta |-> CHECKMATE_SCORE + 1,
                     score |-> 0, calls |-> 0, evals |-> 0,
                     deepest |-> 0]
    /\ pc' = "root_loop"
    /\ UNCHANGED <<game, agent, searchRef, depth, outcome, mctsVars>>

\* _search_root, lines 264-271: order the moves, raise if there are none
SearchRootEnter ==
    /\ pc = "search_root"
    /\ LET om == OrderedMoves(game, heap[searchRef])
       IN  /\ heap' = [heap EXCEPT ![searchRef] = om.board]
           /\ IF om.moves = <<>>
              THEN /\ pc' = "raised"
                   /\ outcome' = [kind |-> "ValueError", move |-> 0]
                   /\ ab' = ab
              ELSE /\ pc' = "root_loop"
                   /\ outcome' = outcome
                   /\ ab' = [moves |-> om.moves, i |-> 1,
                             best_move |-> om.moves[1],
                             best_score |-> -CHECKMATE_SCORE - 1,
                             alpha |-> -CHECKMATE_SCORE - 1,
                             beta |-> CHECKMATE_SCORE + 1,
                             score |-> 0, calls |-> 0, evals |-> 0,
                     deepest |-> 0]
    /\ UNCHANGED <<game, agent, searchRef, depth, mctsVars>>

\* line 274: board.push(move)
RootPush ==
    /\ pc = "root_loop"
    /\ ab.i <= Len(ab.moves)
    /\ heap' = [heap EXCEPT ![searchRef] = Push(heap[searchRef], ab.moves[ab.i])]
    /\ pc' = "root_pushed"
    /\ UNCHANGED <<game, agent, searchRef, depth, ab, outcome, mctsVars>>

\* line 275: score = -_negamax(board, depth - 1, -beta, -alpha)
RootNegamax ==
    /\ pc = "root_pushed"
    /\ LET r == Negamax(game, heap[searchRef], depth - 1, -ab.beta, -ab.alpha)
       IN  /\ heap' = [heap EXCEPT ![searchRef] = r.board]
           /\ ab' = [ab EXCEPT !.score = -r.score,
                               !.calls = ab.calls + r.calls,
                               !.evals = ab.evals + r.evals,
                               !.deepest = IF r.deepest > @ THEN r.deepest ELSE @]
           /\ IF r.raised
              THEN /\ pc' = "raised"
                   /\ outcome' = [kind |-> "RecursionError", move |-> 0]
              ELSE /\ pc' = "root_scored"
                   /\ outcome' = outcome
    /\ UNCHANGED <<game, agent, searchRef, depth, mctsVars>>

\* lines 277-282 without the board.pop() of line 276
RootUpdateNoPop ==
    /\ pc = "root_scored"
    /\ heap' = heap
    /\ LET better == ab.score > ab.best_score
       IN  ab' = [ab EXCEPT !.best_score = IF better THEN ab.score ELSE @,
                           !.best_move = IF better THEN ab.moves[ab.i] ELSE @,
                           !.alpha = IF ab.score > ab.alpha THEN ab.score ELSE @,
                           !.i = ab.i + 1]
    /\ pc' = "root_loop"
    /\ UNCHANGED <<game, agent, searchRef, depth, outcome, mctsVars>>

\* lines 276-282: board.pop(), then keep the best score and move
RootPopUpdate ==
    /\ pc = "root_scored"
    /\ heap' = [heap EXCEPT ![searchRef] = Pop(heap[searchRef])]
    /\ LET better == ab.score > ab.best_score
       IN  ab' = [ab EXCEPT !.best_score = IF better THEN ab.score ELSE @,
                           !.best_move = IF better THEN ab.moves[ab.i] ELSE @,
                           !.alpha = IF ab.score > ab.alpha THEN ab.score ELSE @,
                           !.i = ab.i + 1]
    /\ pc' = "root_loop"
    /\ UNCHANGED <<game, agent, searchRef, depth, outcome, mctsVars>>

\* line 284: return best_move
RootReturn ==
    /\ pc = "root_loop"
    /\ ab.i > Len(ab.moves)
    /\ outcome' = [kind |-> "move", move |-> ab.best_move]
    /\ pc' = "done"
    /\ UNCHANGED <<game, agent, heap, searchRef, depth, ab, mctsVars>>

NextAB ==
    \/ MinimaxSelectMove
    \/ SearchRootEnter
    \/ RootPush
    \/ RootNegamax
    \/ RootPopUpdate
    \/ RootReturn

SpecAB == InitAB /\ [][NextAB]_vars

\* MinimaxAgent(depth) takes any integer: 0 as well
InitDepth ==
    /\ InitCall({WHITE})
    /\ game \in GamesAB
    /\ agent = "minimax"
    /\ depth \in 0 .. MaxDepth
    /\ rng = NoRng
    /\ time_limit = 0

SpecDepth == InitDepth /\ [][NextAB]_vars

-----------------------------------------------------------------------------
(* The call: MCTSAgent.select_move and _mcts_search *)

\* board_copy = board.copy(): a new object
MctsCopyRef == "copy"

\* select_move: copy the board, run _mcts_search on the copy
MctsSelectMove ==
    /\ pc = "idle"
    /\ agent = "mcts"
    /\ searchRef' = MctsCopyRef
    /\ heap' = [heap EXCEPT ![MctsCopyRef] = CopyBoard(heap["caller"])]
    /\ pc' = "mcts_search"
    /\ UNCHANGED <<game, agent, abVars, outcome, mctsVars>>

\* _mcts_search, lines 193-201: raise without a legal move, return the only
\* one, else build the root on a copy and set the deadline.  The clock may
\* move before the loop tests it for the first time.
MctsEnter ==
    /\ pc = "mcts_search"
    /\ LET legal == LegalMoves(game, heap[searchRef])
           made == NewNode(game, CopyBoard(heap[searchRef]), 0, 0, rng)
       IN  IF legal = <<>>
           THEN /\ pc' = "raised"
                /\ outcome' = [kind |-> "ValueError", move |-> 0]
                /\ UNCHANGED <<tree, mc, rng>>
           ELSE IF Len(legal) = 1
           THEN /\ pc' = "done"
                /\ outcome' = [kind |-> "move", move |-> legal[1]]
                /\ mc' = [mc EXCEPT !.legal = legal]
                /\ UNCHANGED <<tree, rng>>
           ELSE /\ pc' = "loop"
                /\ outcome' = outcome
                /\ tree' = <<made.node>>
                /\ rng' = made.rng
                /\ mc' = [legal |-> legal, deadline |-> now + time_limit,
                          iterations |-> 0, node |-> 0, result_white |-> 0,
                          rollouts |-> 0, rng0 |-> rng]
    /\ IF pc' = "loop"
       THEN \E elapsed \in 0 .. MaxTick : now' = now + elapsed
       ELSE now' = now
    /\ UNCHANGED <<game, agent, heap, searchRef, abVars, time_limit, run, first, parked, probe, serveVars>>

\* an iteration started without looking at the clock
MctsSelectAnyTime ==
    /\ pc = "loop"
    /\ mc' = [mc EXCEPT !.node = Select(game, tree, 1)]
    /\ pc' = "selected"
    /\ UNCHANGED <<game, agent, heap, searchRef, abVars, outcome,
                   rng, now, time_limit, tree, run, first, parked, probe, serveVars>>

\* lines 203-205: the deadline has not passed; selection
MctsSelect ==
    /\ pc = "loop"
    /\ now < mc.deadline
    /\ mc' = [mc EXCEPT !.node = Select(game, tree, 1)]
    /\ pc' = "selected"
    /\ UNCHANGED <<game, agent, heap, searchRef, abVars, outcome,
                   rng, now, time_limit, tree, run, first, parked, probe, serveVars>>

\* lines 208-209: expansion
MctsExpand ==
    /\ pc = "selected"
    /\ IF ~IsTerminal(game, tree[mc.node]) /\ ~IsFullyExpanded(tree[mc.node])
       THEN LET e == Expand(game, tree, mc.node, rng)
            IN  /\ tree' = e.tree
                /\ rng' = e.rng
                /\ mc' = [mc EXCEPT !.node = e.node]
       ELSE UNCHANGED <<tree, rng, mc>>
    /\ pc' = "expanded"
    /\ UNCHANGED <<game, agent, heap, searchRef, abVars, outcome,
                   now, time_limit, run, first, parked, probe, serveVars>>

\* line 212: the rollout
MctsRollout ==
    /\ pc = "expanded"
    /\ LET ro == Rollout(game, tree[mc.node].board, rng)
       IN  /\ mc' = [mc EXCEPT !.result_white = ro.result,
                               !.rollouts = @ + 1]
           /\ rng' = ro.rng
    /\ pc' = "rolled"
    /\ UNCHANGED <<game, agent, heap, searchRef, abVars, outcome,
                   now, time_limit, tree, run, first, parked, probe, serveVars>>

\* lines 215-216: backpropagation; the iteration has taken some time
MctsBackpropagate ==
    /\ pc = "rolled"
    /\ tree' = Backpropagate(tree, mc.node, mc.result_white)
    /\ mc' = [mc EXCEPT !.iterations = @ + 1]
    /\ \E elapsed \in 1 .. MaxTick : now' = now + elapsed
    /\ pc' = "loop"
    /\ UNCHANGED <<game, agent, heap, searchRef, abVars, outcome,
                   rng, time_limit, run, first, parked, probe, serveVars>>

\* the return without the test for a root without children: max() of an
\* empty list raises ValueError
MctsReturnNoFallback ==
    /\ pc = "loop"
    /\ ~(now < mc.deadline)
    /\ IF tree[1].children = <<>>
       THEN /\ outcome' = [kind |-> "ValueError", move |-> 0]
            /\ pc' = "raised"
       ELSE /\ outcome' = [kind |-> "move",
                           move |-> tree[MostVisited(tree, tree[1].children)].move]
            /\ pc' = "done"
    /\ UNCHANGED <<game, agent, heap, searchRef, abVars,
                   rng, now, time_limit, tree, mc, run, first, parked, probe, serveVars>>

\* lines 218-224: the deadline has passed; the most visited child's move,
\* or a random legal move when the root has no child
MctsReturn ==
    /\ pc = "loop"
    /\ ~(now < mc.deadline)
    /\ IF tree[1].children = <<>>
       THEN LET c == Choice(mc.legal, rng)
            IN  /\ outcome' = [kind |-> "move", move |-> c.value]
                /\ rng' = c.rng
       ELSE /\ outcome' = [kind |-> "move",
                           move |-> tree[MostVisited(tree, tree[1].children)].move]
            /\ rng' = rng
    /\ pc' = "done"
    /\ UNCHANGED <<game, agent, heap, searchRef, abVars,
                   now, time_limit, tree, mc, run, first, parked, probe, serveVars>>

NextMCTS ==
    \/ MctsSelectMove
    \/ MctsEnter
    \/ MctsSelect
    \/ MctsExpand
    \/ MctsRollout
    \/ MctsBackpropagate
    \/ MctsReturn

SpecMCTS == InitMCTS /\ [][NextMCTS]_vars

\* the positions of a call in the code of the MCTS agent
PcValues ==
    {"idle", "mcts_search", "loop", "selected", "expanded", "rolled", "done",
     "raised"}

\* the call moves on in its code
CallStep == pc \notin {"done", "raised"} /\ pc' \in PcValues \ {pc}

\* the thread the search runs on is scheduled again and again: a call that
\* has not ended moves on
SpecMCTSFair == InitMCTS /\ [][NextMCTS]_vars /\ WF_pc(CallStep)

\* A second call of select_move with the same position, the same time
\* limit and the random generator set back to where the first call found
\* it; what the first call built and returned is kept for comparison.
Rerun ==
    /\ pc = "done"
    /\ agent = "mcts"
    /\ run = 1
    /\ first' = [tree |-> tree, outcome |-> outcome,
                 iterations |-> mc.iterations, rollouts |-> mc.rollouts,
                 rng |-> rng]
    /\ run' = 2
    /\ rng' = [rng EXCEPT !.cur = 1]
    /\ heap' = [heap EXCEPT !["copy"] = NoBoard]
    /\ searchRef' = "none"
    /\ pc' = "idle"
    /\ outcome' = NoOutcome
    /\ tree' = <<>>
    /\ mc' = NoMcts
    /\ UNCHANGED <<game, agent, abVars, now, time_limit, parked, probe, serveVars>>

NextRepro == NextMCTS \/ Rerun

SpecRepro == InitMCTS /\ [][NextRepro]_vars

-----------------------------------------------------------------------------
(* Two calls at once: asyncio.to_thread runs each search on a thread *)

\* Two select_move calls on the same caller board.  One thread runs at a
\* time; the other call's own objects (its board copy, its locals, its
\* tree) wait in parked.  The rules, the agents' settings, the clock and
\* the generator of module random belong to the process, not to a call.
InitConc ==
    /\ heap = [r \in Refs |-> IF r = "caller" THEN Board(0, WHITE) ELSE NoBoard]
    /\ searchRef = "none"
    /\ pc = "idle"
    /\ outcome = NoOutcome
    /\ ab = NoLocals
    /\ tree = <<>>
    /\ mc = NoMcts
    /\ now = 0
    /\ run = 1
    /\ first = NoFirst
    /\ probe = NoProbe
    /\ NoService
    /\ game \in GamesMCTS
    /\ agent \in {"minimax", "mcts"}
    /\ parked \in {[NoParked EXCEPT !.agent = a] : a \in {"minimax", "mcts"}}
    /\ depth = 2
    /\ rng \in [seq : Streams, cur : {1}]
    /\ time_limit = MaxTick

\* the scheduler takes the running thread off and puts the other one on
Switch ==
    /\ parked.agent # "none"
    /\ parked' = [agent |-> agent, copy |-> heap["copy"],
                  searchRef |-> searchRef, pc |-> pc, ab |-> ab,
                  outcome |-> outcome, tree |-> tree, mc |-> mc]
    /\ agent' = parked.agent
    /\ heap' = [heap EXCEPT !["copy"] = parked.copy]
    /\ searchRef' = parked.searchRef
    /\ pc' = parked.pc
    /\ ab' = parked.ab
    /\ outcome' = parked.outcome
    /\ tree' = parked.tree
    /\ mc' = parked.mc
    /\ UNCHANGED <<game, depth, rng, now, time_limit, run, first, probe, serveVars>>

NextConc == NextAB \/ NextMCTS \/ Switch

SpecConc == InitConc /\ [][NextConc]_vars

-----------------------------------------------------------------------------
(* evaluate and _ordered_moves called on their own *)

\* the squares the placements of several pieces are drawn on: d4, e5 and e7
ProbeSquares == {27, 36, 52}

\* on every square the piece that counts most there
HeaviestAt(sq) ==
    CHOOSE p \in Pieces : \A q \in Pieces :
        PlacementScore([x \in {sq} |-> q]) <= PlacementScore([x \in {sq} |-> p])

\* the placements evaluate is called on: the empty board, every piece on
\* every square, up to MaxPieces pieces on the chosen squares, and full
\* boards (one kind of piece on all 64 squares; the heaviest piece on each)
Placements ==
    UNION {[D -> Pieces] : D \in {{sq} : sq \in SQUARES}}
    \cup UNION {[D -> Pieces] :
                   D \in {E \in SUBSET ProbeSquares : Cardinality(E) <= MaxPieces}}
    \cup {[sq \in SQUARES |-> p] : p \in Pieces}
    \cup {[sq \in SQUARES |-> HeaviestAt(sq)]}

\* a board with placement pl whose rules status is st
PlacedGame(pl, st) ==
    [c \in Positions |->
        [n |-> IF st \in {"mate", "stale"} THEN 0 ELSE 1, status |-> st,
         check |-> (st = "mate"), score |-> PlacementScore(pl), material |-> 0,
         mv |-> Quiet]]

\* the kinds of move _move_order_key can be given, with whether the move
\* gives check: captures of every piece by every piece, en passant (no
\* piece on the target square), capturing and plain promotions, other moves
MoveKinds ==
    [capture : {TRUE}, victim : PieceTypes \ {KING}, aggressor : PieceTypes,
     promotion : {None}, check : BOOLEAN]
    \cup [capture : {TRUE}, victim : {None}, aggressor : {PAWN},
          promotion : {None}, check : BOOLEAN]
    \cup [capture : {TRUE}, victim : {KNIGHT, BISHOP, ROOK, QUEEN},
          aggressor : {PAWN}, promotion : {KNIGHT, BISHOP, ROOK, QUEEN},
          check : BOOLEAN]
    \cup [capture : {FALSE}, victim : {None}, aggressor : PieceTypes,
          promotion : {None}, check : BOOLEAN]
    \cup [capture : {FALSE}, victim : {None}, aggressor : {PAWN},
          promotion : {KNIGHT, BISHOP, ROOK, QUEEN}, check : BOOLEAN]

\* the kinds drawn for the moves behind the second one
FewMoveKinds ==
    {k \in MoveKinds :
        /\ k.aggressor = PAWN
        /\ k.victim \in {None, QUEEN}
        /\ k.promotion = None
        /\ k.capture => ~k.check}

\* how many of n moves are drawn from all the kinds
FullyDrawn(n) == IF n < 2 THEN n ELSE 2

\* a position whose legal moves, in the oracle's order, are of the kinds ms
MovesGame(ms) ==
    [c \in Positions |->
        LET m == IF c = 0 THEN Cardinality(Positions) ELSE c
            k == IF m <= Len(ms) THEN ms[m]
                 ELSE [capture |-> FALSE, victim |-> None, aggressor |-> PAWN,
                       promotion |-> None, check |-> FALSE]
        IN  [n |-> IF c = 0 THEN Len(ms) ELSE 1, status |-> "play",
             check |-> k.check, score |-> 0, material |-> 0,
             mv |-> [capture |-> k.capture, victim |-> k.victim,
                     aggressor |-> k.aggressor, promotion |-> k.promotion]]]

\* the score of the full board with the heaviest piece on every square
HeaviestScore == PlacementScore([sq \in SQUARES |-> HeaviestAt(sq)])

\* the games _negamax is called on: every position in play has the largest
\* or the smallest score a full board can have
PosSpecsExtreme ==
    {p \in [n : 0 .. MaxMoves, status : {"mate", "stale", "dead", "play"},
            check : BOOLEAN, score : {-HeaviestScore, 0, HeaviestScore},
            material : {0}, mv : {Quiet}] :
        /\ WellFormedPos(p)
        /\ p.check = (p.status = "mate")
        /\ (p.score # 0) = (p.status = "play")}

GamesExtreme == [Positions -> PosSpecsExtreme]

\* the windows _negamax is called with
Windows ==
    {<<-CHECKMATE_SCORE - 1, CHECKMATE_SCORE + 1>>,
     <<-CHECKMATE_SCORE - 1, 0>>, <<0, CHECKMATE_SCORE + 1>>}

\* nothing but the function's arguments
InitPure ==
    /\ heap = [r \in Refs |-> NoBoard]
    /\ searchRef = "none"
    /\ pc = "idle"
    /\ outcome = NoOutcome
    /\ ab = NoLocals
    /\ tree = <<>>
    /\ mc = NoMcts
    /\ now = 0
    /\ run = 1
    /\ first = NoFirst
    /\ parked = NoParked
    /\ NoService
    /\ game = PlacedGame(<<>>, "play")
    /\ agent = "none"
    /\ depth = 0
    /\ rng = NoRng
    /\ time_limit = 0
    /\ \/ \E pl \in Placements, t \in {WHITE, BLACK}, st \in Statuses :
             probe = [op |-> "evaluate", placement |-> pl, turn |-> t,
                      status |-> st, returned |-> FALSE, result |-> 0]
       \/ \E n \in 1 .. MaxMoves :
             \E ms \in [1 .. FullyDrawn(n) -> MoveKinds],
                more \in [1 .. (n - FullyDrawn(n)) -> FewMoveKinds] :
                probe = [op |-> "order", kinds |-> ms \o more, returned |-> FALSE,
                         keys |-> <<>>, result |-> <<>>]
       \/ \E g \in GamesExtreme, t \in {WHITE, BLACK}, d \in 0 .. MaxDepth,
             w \in Windows :
             probe = [op |-> "negamax", game |-> g, turn |-> t, depth |-> d,
                      alpha |-> w[1], beta |-> w[2], returned |-> FALSE,
                      result |-> 0]

callVars == <<game, agent, heap, searchRef, pc, depth, ab, outcome,
              rng, now, time_limit, tree, mc, run, first, parked>>

\* evaluate(board)
EvaluateAlone ==
    /\ probe.op = "evaluate"
    /\ ~probe.returned
    /\ probe' = [probe EXCEPT
                    !.returned = TRUE,
                    !.result = Evaluate(PlacedGame(probe.placement, probe.status),
                                        Board(0, probe.turn))]
    /\ UNCHANGED <<callVars, serveVars>>

\* _ordered_moves(board)
OrderedMovesAlone ==
    /\ probe.op = "order"
    /\ ~probe.returned
    /\ LET g == MovesGame(probe.kinds)
           b == Board(0, WHITE)
       IN  probe' = [probe EXCEPT
                        !.returned = TRUE,
                        !.keys = KeysFrom(g, b, LegalMoves(g, b), 1, <<>>).keys,
                        !.result = OrderedMoves(g, b).moves]
    /\ UNCHANGED <<callVars, serveVars>>

\* _negamax(board, depth, alpha, beta)
NegamaxAlone ==
    /\ probe.op = "negamax"
    /\ ~probe.returned
    /\ probe' = [probe EXCEPT
                    !.returned = TRUE,
                    !.result = Negamax(probe.game, Board(0, probe.turn),
                                       probe.depth, probe.alpha, probe.beta).score]
    /\ UNCHANGED <<callVars, serveVars>>

NextPure == EvaluateAlone \/ OrderedMovesAlone \/ NegamaxAlone

SpecPure == InitPure /\ [][NextPure]_vars

-----------------------------------------------------------------------------
(* The service: engine/game.py and the endpoints of main.py *)

\* the longest game played: the number of moves pushed on a Game's board
MaxPlies == 3

\* the ids new_game hands out
GameIds == {"g1"}

\* names of the agents that can be registered; when main.py is loaded only
\* "random" is
AgentNames == {"random", "mcts"}

\* whether the agent's select_move gives up the event loop before it
\* returns: RandomAgent.select_move has no await in it, MCTSAgent's
\* awaits asyncio.to_thread
Suspends(a) == a # "random"

\* chess.Move values.  The oracle numbers the legal moves of a position;
\* the i-th move of a side is the same Move in every position where that
\* side has an i-th move.
MoveOf(b, i) == [by |-> b.turn, i |-> i]

\* how many legal moves a position of a served game can have: enough for
\* the game graph to hold a line through three different positions
ServedMoveCounts == 0 .. 3

\* the Move values a caller can pass, including moves legal nowhere
Moves == [by : {WHITE, BLACK}, i : 1 .. 4]

\* move in board.legal_moves
IsLegal(g, b, mv) ==
    \E k \in DOMAIN LegalMoves(g, b) : MoveOf(b, LegalMoves(g, b)[k]) = mv

\* move.uci(): the text of a move
Uci(mv) == <<IF mv.by = WHITE THEN "w" ELSE "b", mv.i>>

\* a text that is no move
NoUci == <<"zz", 0>>

\* the texts a client can send
UciTexts == {Uci(mv) : mv \in Moves} \cup {NoUci}

\* chess.Move.from_uci(text): the move, or InvalidMoveError
FromUci(text) ==
    IF text[1] \in {"w", "b"}
    THEN [raised |-> FALSE,
          move |-> [by |-> IF text[1] = "w" THEN WHITE ELSE BLACK, i |-> text[2]]]
    ELSE [raised |-> TRUE, move |-> NoMove]

\* Game(game_id, white, black)
NewGameObject(w, b) ==
    [white |-> w, black |-> b, board |-> Board(0, WHITE), moves |-> <<>>,
     timestamps |-> <<>>, result |-> "None"]

\* Game.is_over: board.is_game_over(claim_draw=True)
GameIsOver(g, gm) == IsGameOver(g, gm.board) \/ CanClaimDraw(g, gm.board)

\* board.outcome(claim_draw=True): the winner, a draw, or None
BoardOutcome(g, b) ==
    IF IsCheckmate(g, b) THEN (IF b.turn = WHITE THEN "black" ELSE "white")
    ELSE IF IsGameOver(g, b) \/ CanClaimDraw(g, b) THEN "draw"
    ELSE "None"

\* Game.get_result
GetResult(g, gm) ==
    IF ~GameIsOver(g, gm) THEN "*"
    ELSE LET oc == BoardOutcome(g, gm.board)
         IN  IF oc = "None" THEN "*"
             ELSE IF oc = "draw" THEN "1/2-1/2"
             ELSE IF oc = "white" THEN "1-0" ELSE "0-1"

\* Game.apply_move that does not record the time
ApplyMoveNoTimestamp(g, gm, mv, elapsed) ==
    IF ~IsLegal(g, gm.board, mv) THEN [raised |-> TRUE, game |-> gm]
    ELSE LET pushed == [gm EXCEPT !.board = Push(@, mv.i),
                                  !.moves = Append(@, Uci(mv))]
         IN  [raised |-> FALSE,
              game |-> IF GameIsOver(g, pushed)
                       THEN [pushed EXCEPT !.result = GetResult(g, pushed)]
                       ELSE pushed]

\* Game.apply_move(move, elapsed): the game afterwards, and whether
\* ValueError was raised
ApplyMove(g, gm, mv, elapsed) ==
    IF ~IsLegal(g, gm.board, mv) THEN [raised |-> TRUE, game |-> gm]
    ELSE LET pushed == [gm EXCEPT !.board = Push(@, mv.i),
                                  !.moves = Append(@, Uci(mv)),
                                  !.timestamps = Append(@, elapsed)]
         IN  [raised |-> FALSE,
              game |-> IF GameIsOver(g, pushed)
                       THEN [pushed EXCEPT !.result = GetResult(g, pushed)]
                       ELSE pushed]

\* positions of the games the service plays; the starting position is in
\* play
PosSpecsServed ==
    {p \in [n : ServedMoveCounts, status : Statuses, check : BOOLEAN,
            score : {0}, material : {0}, mv : {Quiet}] :
        /\ WellFormedPos(p)
        /\ p.check = (p.status = "mate")}

GamesServed == {g \in [Positions -> PosSpecsServed] : g[0].status = "play"}

\* no select_move call is modelled step by step
NoCall ==
    /\ heap = [r \in Refs |-> NoBoard]
    /\ searchRef = "none"
    /\ pc = "idle"
    /\ outcome = NoOutcome
    /\ ab = NoLocals
    /\ tree = <<>>
    /\ mc = NoMcts
    /\ now = 0
    /\ run = 1
    /\ first = NoFirst
    /\ parked = NoParked
    /\ agent = "none"
    /\ depth = 0
    /\ rng = NoRng
    /\ time_limit = 0

\* main.py loaded: RandomAgent registered, no game
InitServe ==
    /\ NoCall
    /\ probe = NoProbe
    /\ game \in GamesServed
    /\ AGENT_REGISTRY = {"random"}
    /\ GAMES = <<>>
    /\ requests = [c \in Clients |-> NoRequest]
    /\ mcp = NoMcp

\* _register_agent(agent)
RegisterAgent(a) ==
    /\ a \notin AGENT_REGISTRY
    /\ AGENT_REGISTRY' = AGENT_REGISTRY \cup {a}
    /\ UNCHANGED <<callVars, probe, GAMES, requests, mcp>>

\* POST /game/new with two registered agents (404 otherwise)
NewGame(id, w, b) ==
    /\ id \notin DOMAIN GAMES
    /\ w \in AGENT_REGISTRY
    /\ b \in AGENT_REGISTRY
    /\ GAMES' = (id :> NewGameObject(w, b)) @@ GAMES
    /\ UNCHANGED <<callVars, probe, AGENT_REGISTRY, requests, mcp>>

\* the request ends with an error
Failed(req, status, detail) ==
    [req EXCEPT !.st = "done", !.status = status, !.detail = detail]

\* make_move from the return of select_move on, with no validation
MakeMoveFinishUnchecked(req, mv) ==
    LET gm == GAMES[req.game_id]
        r == ApplyMove(game, gm, mv, 0)
    IN  IF r.raised
        THEN [games |-> GAMES,
              request |-> [Failed(req, 500, "ValueError") EXCEPT !.move = mv]]
        ELSE [games |-> [GAMES EXCEPT ![req.game_id] = r.game],
              request |-> [req EXCEPT !.st = "done", !.status = 200,
                                      !.move = mv, !.applied_to = gm.board]]

\* make_move from the return of select_move on (lines 187-207): the move
\* is looked up in the legal moves of the game's board, applied, and
\* answered.  applied_to keeps the board the move was pushed on.
MakeMoveFinish(req, mv) ==
    LET gm == GAMES[req.game_id]
    IN  IF ~IsLegal(game, gm.board, mv)
        THEN [games |-> GAMES,
              request |-> [Failed(req, 400, "illegal move") EXCEPT !.move = mv]]
        ELSE MakeMoveFinishUnchecked(req, mv)

\* what agent.select_move(copy) gives back: a legal move of the copy
\* (0 stands for the ValueError of a position without moves)
Selected(b) == IF game[b.pos].n = 0 THEN {0} ELSE 1 .. game[b.pos].n

\* make_move after select_move returned its i-th legal move
MakeMoveAfterSelect(req, i) ==
    IF i = 0
    THEN [games |-> GAMES, request |-> Failed(req, 400, "ValueError")]
    ELSE MakeMoveFinish(req, MoveOf(req.copy, i))

\* make_move up to the await (lines 172-184), and beyond it when the
\* agent's select_move does not suspend
MakeMoveBegin(c, id, i) ==
    LET req == [NoRequest EXCEPT !.game_id = id]
    IN  IF id \notin DOMAIN GAMES
        THEN [games |-> GAMES, request |-> Failed(req, 404, "game not found")]
        ELSE
        LET gm == GAMES[id]
            agent_name == IF gm.board.turn = WHITE THEN gm.white ELSE gm.black
            called == [req EXCEPT !.agent_name = agent_name,
                                  !.copy = CopyBoard(gm.board)]
        IN  IF GameIsOver(game, gm)
            THEN [games |-> GAMES, request |-> Failed(req, 400, "game over")]
            ELSE IF agent_name \notin AGENT_REGISTRY
            THEN [games |-> GAMES, request |-> Failed(req, 404, "agent not found")]
            ELSE IF Suspends(agent_name)
            THEN [games |-> GAMES, request |-> [called EXCEPT !.st = "awaiting"]]
            ELSE MakeMoveAfterSelect(called, i)

\* the moves the agent can return to a request that begins now
SelectedAtBegin(id) ==
    IF id \in DOMAIN GAMES THEN Selected(GAMES[id].board) ELSE {0}

\* the board of the game has room for one more move
Playable(id) ==
    id \in DOMAIN GAMES => Len(GAMES[id].board.stack) < MaxPlies

\* POST /game/{game_id}/move from an HTTP client
MakeMove(c, id) ==
    /\ requests[c].st # "awaiting"
    /\ Playable(id)
    /\ \E i \in SelectedAtBegin(id) :
          LET r == MakeMoveBegin(c, id, i)
          IN  /\ GAMES' = r.games
              /\ requests' = [requests EXCEPT ![c] = r.request]
    /\ UNCHANGED <<callVars, probe, AGENT_REGISTRY, mcp>>

\* the answer of play_move to its caller
McpReply(req) ==
    IF req.status = 200
    THEN [error |-> FALSE, status_code |-> 200, move |-> Uci(req.move)]
    ELSE [error |-> TRUE, status_code |-> req.status, move |-> NoUci]

\* play_move after its POST /game/{id}/move was answered or suspended
McpAfter(req) ==
    IF req.st = "done"
    THEN [mcp EXCEPT !.st = "done", !.reply = McpReply(req)]
    ELSE [mcp EXCEPT !.st = "moving"]

\* the await of make_move returns: the agent's move arrives
MakeMoveResume(c) ==
    /\ requests[c].st = "awaiting"
    /\ Playable(requests[c].game_id)
    /\ \E i \in Selected(requests[c].copy) :
          LET r == MakeMoveAfterSelect(requests[c], i)
          IN  /\ GAMES' = r.games
              /\ requests' = [requests EXCEPT ![c] = r.request]
              /\ mcp' = IF c = "mcp" THEN McpAfter(r.request) ELSE mcp
    /\ UNCHANGED <<callVars, probe, AGENT_REGISTRY>>

\* POST /game/{game_id}/validate: valid or not, or 404
ValidateMove(id, text) ==
    IF id \notin DOMAIN GAMES THEN [status |-> 404, valid |-> FALSE]
    ELSE LET parsed == FromUci(text)
         IN  IF parsed.raised THEN [status |-> 200, valid |-> FALSE]
             ELSE [status |-> 200,
                   valid |-> IsLegal(game, GAMES[id].board, parsed.move)]

\* _dispatch("play_move", {game_id, move}) up to the answer of the
\* validate endpoint (lines 274-285)
PlayMoveValidate(id, text) ==
    /\ mcp.st \in {"idle", "done"}
    /\ LET v == ValidateMove(id, text)
           call == [NoMcp EXCEPT !.game_id = id, !.move = text]
       IN  mcp' =
             IF v.status # 200
             THEN [call EXCEPT !.st = "done",
                               !.reply = [error |-> TRUE, status_code |-> v.status,
                                          move |-> NoUci]]
             ELSE IF ~v.valid
             THEN [call EXCEPT !.st = "done",
                               !.reply = [error |-> TRUE, status_code |-> 0,
                                          move |-> text]]
             ELSE [call EXCEPT !.st = "validated", !.valid = TRUE]
    /\ UNCHANGED <<callVars, probe, AGENT_REGISTRY, GAMES, requests>>

\* play_move after a valid answer: POST /game/{id}/move (lines 286-300)
PlayMoveMove ==
    /\ mcp.st = "validated"
    /\ Playable(mcp.game_id)
    /\ \E i \in SelectedAtBegin(mcp.game_id) :
          LET r == MakeMoveBegin("mcp", mcp.game_id, i)
          IN  /\ GAMES' = r.games
              /\ requests' = [requests EXCEPT !["mcp"] = r.request]
              /\ mcp' = McpAfter(r.request)
    /\ UNCHANGED <<callVars, probe, AGENT_REGISTRY>>

\* the clients that call the endpoint themselves
HttpClients == Clients \ {"mcp"}

NextServe ==
    \/ \E a \in AgentNames : RegisterAgent(a)
    \/ \E id \in GameIds, w \in AgentNames, b \in AgentNames : NewGame(id, w, b)
    \/ \E c \in HttpClients, id \in GameIds : MakeMove(c, id)
    \/ \E c \in HttpClients : MakeMoveResume(c)

SpecServe == InitServe /\ [][NextServe]_vars

\* the MCP server as the only client of the engine
NextMcp ==
    \/ \E a \in AgentNames : RegisterAgent(a)
    \/ \E id \in GameIds, w \in AgentNames, b \in AgentNames : NewGame(id, w, b)
    \/ \E id \in GameIds, text \in UciTexts : PlayMoveValidate(id, text)
    \/ PlayMoveMove
    \/ MakeMoveResume("mcp")

SpecMcp == InitServe /\ [][NextMcp]_vars

-----------------------------------------------------------------------------
(* Game.apply_move called on its own: engine/game.py *)

\* a Game just constructed
InitGame ==
    /\ NoCall
    /\ game \in GamesServed
    /\ AGENT_REGISTRY = {}
    /\ GAMES = [id \in GameIds |-> NewGameObject("random", "random")]
    /\ requests = [c \in Clients |-> NoRequest]
    /\ mcp = NoMcp
    /\ probe = [op |-> "apply_move", called |-> FALSE, move |-> NoMove,
                before |-> NewGameObject("random", "random"), raised |-> FALSE]

\* game.apply_move(mv, elapsed) with any move; probe keeps the call
ApplyMoveAlone(id, mv) ==
    /\ probe.op = "apply_move"
    /\ Playable(id)
    /\ LET r == ApplyMove(game, GAMES[id], mv, 0)
       IN  /\ GAMES' = [GAMES EXCEPT ![id] = r.game]
           /\ probe' = [probe EXCEPT !.called = TRUE, !.move = mv,
                                     !.before = GAMES[id], !.raised = r.raised]
    /\ UNCHANGED <<callVars, AGENT_REGISTRY, requests, mcp>>

NextGame == \E id \in GameIds, mv \in Moves : ApplyMoveAlone(id, mv)

SpecGame == InitGame /\ [][NextGame]_vars

-----------------------------------------------------------------------------
(* LLMAgent.select_move: agents/llm_agent.py *)

\* a retry count one too many
MaxRetriesFour == 3 + 1

\* _MAX_RETRIES
MAX_RETRIES == 3

\* the words of a reply that are moves: the first legal move of a side, if
\* it has one, and a move legal nowhere
ReplyMoves == {mv \in Moves : mv.i \in {1, 4}}

\* replies of the model, as the words split() finds in the text
Replies ==
    {<<>>, <<NoUci>>} \cup {<<Uci(mv)>> : mv \in ReplyMoves} \cup
    {<<NoUci, Uci(mv)>> : mv \in {m \in ReplyMoves : m.i = 1}}

\* what one API request can end with: an HTTP status error, a request
\* error, a body that is not the expected JSON, or a reply text
ApiOutcomes ==
    {[kind |-> k, raw |-> <<>>] : k \in {"status", "request", "malformed"}}
    \cup {[kind |-> "reply", raw |-> r] : r \in Replies}

\* _parse_uci_move(text, board): the first word that is a legal move, or
\* None
RECURSIVE ParseUciMoveFrom(_, _, _, _)
ParseUciMoveFrom(g, b, tokens, k) ==
    IF k > Len(tokens) THEN [none |-> TRUE, move |-> NoMove]
    ELSE LET parsed == FromUci(tokens[k])
         IN  IF ~parsed.raised /\ IsLegal(g, b, parsed.move)
             THEN [none |-> FALSE, move |-> parsed.move]
             ELSE ParseUciMoveFrom(g, b, tokens, k + 1)

ParseUciMove(g, b, tokens) == ParseUciMoveFrom(g, b, tokens, 1)

\* the games the agent is asked about: only the given position matters
GamesLLM == {[c \in Positions |-> p] : p \in PosSpecsServed}

\* before the call: the board and the generator of module random
InitLLM ==
    /\ heap = [r \in Refs |-> NoBoard]
    /\ searchRef = "none"
    /\ pc = "idle"
    /\ outcome = NoOutcome
    /\ ab = NoLocals
    /\ tree = <<>>
    /\ mc = NoMcts
    /\ now = 0
    /\ run = 1
    /\ first = NoFirst
    /\ parked = NoParked
    /\ agent = "llm"
    /\ depth = 0
    /\ time_limit = 0
    /\ NoService
    /\ game \in GamesLLM
    /\ rng \in [seq : Streams, cur : {1}]
    /\ \E t \in {WHITE, BLACK} :
          probe = [op |-> "llm", board |-> Board(0, t), pc |-> "idle",
                   attempt |-> 0, requests |-> 0, outcomes |-> <<>>,
                   error_context |-> "None", result |-> NoMove]

llmVars == <<game, agent, heap, searchRef, pc, depth, ab, outcome,
             now, time_limit, tree, mc, run, first, parked, serveVars>>

\* select_move up to the first request (lines 209-228)
LlmSelectMove ==
    /\ probe.op = "llm"
    /\ probe.pc = "idle"
    /\ probe' = IF Len(LegalMoves(game, probe.board)) = 0
                THEN [probe EXCEPT !.pc = "raised"]
                ELSE [probe EXCEPT !.pc = "requesting", !.attempt = 1,
                                   !.requests = 1]
    /\ UNCHANGED <<llmVars, rng>>

\* the attempt failed: the next request, or random.choice(legal_moves)
\* after the last attempt
LlmNext(p, context) ==
    IF p.attempt < MAX_RETRIES
    THEN [probe |-> [p EXCEPT !.attempt = @ + 1, !.requests = @ + 1,
                              !.error_context = context],
          rng |-> rng]
    ELSE LET legal_moves == LegalMoves(game, p.board)
             ch == Choice(legal_moves, rng)
         IN  [probe |-> [p EXCEPT !.pc = "returned", !.error_context = context,
                                  !.result = MoveOf(p.board, ch.value)],
              rng |-> ch.rng]

\* the request of the current attempt is answered (lines 226-265)
LlmReply(o) ==
    /\ probe.op = "llm"
    /\ probe.pc = "requesting"
    /\ LET p == [probe EXCEPT !.outcomes = Append(@, o)]
           parsed == ParseUciMove(game, probe.board, o.raw)
           next == IF o.kind = "status" THEN LlmNext(p, "HTTP")
                   ELSE IF o.kind = "request" THEN LlmNext(p, "request")
                   ELSE IF o.kind = "malformed"
                   THEN [probe |-> [p EXCEPT !.pc = "raised"], rng |-> rng]
                   ELSE IF ~parsed.none
                   THEN [probe |-> [p EXCEPT !.pc = "returned",
                                             !.result = parsed.move],
                         rng |-> rng]
                   ELSE LlmNext(p, "reply")
       IN  /\ probe' = next.probe
           /\ rng' = next.rng
    /\ UNCHANGED llmVars

NextLLM ==
    \/ LlmSelectMove
    \/ \E o \in ApiOutcomes : LlmReply(o)

SpecLLM == InitLLM /\ [][NextLLM]_vars

-----------------------------------------------------------------------------
(* Either agent *)

Init == InitAB \/ InitMCTS

Next == NextAB \/ NextMCTS

Spec == Init /\ [][Next]_vars

-----------------------------------------------------------------------------
(* Reference definitions for the properties *)

\* the board the caller passed
Input == heap["caller"]

\* the legal moves of the position given at call time
InputLegal == 1 .. game[0].n

Returned == pc = "done" /\ outcome.kind = "move"

\* negamax without pruning
RECURSIVE FullNegamax(_, _, _)
FullNegamax(g, b, d) ==
    IF d = 0 \/ IsGameOver(g, b) THEN Evaluate(g, b)
    ELSE LET vals == {-FullNegamax(g, Push(b, m), d - 1) : m \in 1 .. g[b.pos].n}
         IN  CHOOSE v \in vals : \A w \in vals : w <= v

\* the exact score of root move m
FullRootScore(g, b, d, m) == -FullNegamax(g, Push(b, m), d - 1)

\* the best exact score at the root
FullBestScore(g, b, d) ==
    LET vals == {FullRootScore(g, b, d, m) : m \in 1 .. g[b.pos].n}
    IN  CHOOSE v \in vals : \A w \in vals : w <= v

\* the first move, in the orderer's order, that attains the best exact score
FullBestMove(g, b, d) ==
    LET moves == OrderedMoves(g, b).moves
        k == CHOOSE i \in 1 .. Len(moves) :
                /\ FullRootScore(g, b, d, moves[i]) = FullBestScore(g, b, d)
                /\ \A j \in 1 .. (i - 1) :
                      FullRootScore(g, b, d, moves[j]) # FullBestScore(g, b, d)
    IN  moves[k]

\* the number of calls negamax without pruning makes
RECURSIVE FullCalls(_, _, _)
RECURSIVE SumCalls(_, _, _, _)
SumCalls(g, b, d, m) ==
    IF m = 0 THEN 0
    ELSE FullCalls(g, Push(b, m), d) + SumCalls(g, b, d, m - 1)

FullCalls(g, b, d) ==
    IF d = 0 \/ IsGameOver(g, b) THEN 1
    ELSE 1 + SumCalls(g, b, d - 1, g[b.pos].n)

-----------------------------------------------------------------------------
(* Properties *)

\* C1: when the input position has a legal move, a finished call of either
\* engine has returned a move of the input position's legal-move set (it
\* has not raised, and the move is not pseudo-legal or stale).
C1_ReturnsLegalMove ==
    (pc \in {"done", "raised"} /\ game[0].n >= 1)
        => (Returned /\ outcome.move \in InputLegal)

\* C1 witness: MCTS has returned after at least two iterations
C1_Witness ==
    /\ Returned
    /\ agent = "mcts"
    /\ mc.iterations >= 2
    /\ outcome.move \in InputLegal

\* C2: on a position without a legal move both engines raise ValueError
\* before any search (no _negamax call, no evaluation, no tree, no rollout),
\* the error reaches the caller of select_move, and no move is returned.
C2_NoLegalMovesRaises ==
    (game[0].n = 0 /\ pc \notin {"idle", "search_root", "mcts_search"})
        => /\ pc = "raised"
           /\ outcome = [kind |-> "ValueError", move |-> 0]
           /\ ab.calls = 0
           /\ ab.evals = 0
           /\ tree = <<>>
           /\ mc.rollouts = 0

\* C2 witness: the alpha-beta agent has raised on a checkmated position
C2_Witness ==
    /\ pc = "raised"
    /\ agent = "minimax"
    /\ game[0].status = "mate"

\* C3: the move and the best score of the alpha-beta search equal those of
\* negamax without pruning that takes the moves in the same order and keeps
\* the first move with the largest score.
C3_PruningCorrect ==
    (pc = "done" /\ agent = "minimax")
        => /\ ab.best_score = FullBestScore(game, Input, depth)
           /\ ab.best_move = FullBestMove(game, Input, depth)
           /\ outcome.move = ab.best_move

\* C3 witness: a finished search that has pruned (fewer calls than the
\* search without pruning makes below the root) at depth three
C3_Witness ==
    /\ pc = "done"
    /\ agent = "minimax"
    /\ depth = 3
    /\ ab.calls < FullCalls(game, Input, depth) - 1

\* C4: the caller's board object never changes: every step of either call
\* leaves its position, side to move and move stack as they were.
C4_CallerBoardUntouched == [][heap'["caller"] = heap["caller"]]_vars

\* C4 witness: in the middle of a search the engine's copy holds a pushed
\* move and the caller's board does not
C4_Witness ==
    /\ pc = "root_pushed"
    /\ searchRef = "copy"
    /\ Len(heap["copy"].stack) = 1
    /\ heap["caller"].stack = <<>>

\* the input position is one the caller may pass: the game is not over
InputInPlay == game[0].status = "play"

\* C5: when the root position has a legal move that checkmates at once, the
\* alpha-beta search at every depth returns a move after which the opponent
\* is checkmated, and its root score is CHECKMATE_SCORE.
C5_MateInOneReturned ==
    (/\ pc = "done"
     /\ agent = "minimax"
     /\ InputInPlay
     /\ \E m \in InputLegal : IsCheckmate(game, Push(Input, m)))
        => /\ IsCheckmate(game, Push(Input, outcome.move))
           /\ ab.best_score = CHECKMATE_SCORE

\* C6: with exactly one legal move both engines return it without any
\* search: no tree, no iteration, no rollout, no _negamax call and no
\* evaluation.
C6_SingleMoveNoSearch ==
    (pc = "done" /\ InputInPlay /\ game[0].n = 1)
        => /\ outcome = [kind |-> "move", move |-> 1]
           /\ tree = <<>>
           /\ mc.iterations = 0
           /\ mc.rollouts = 0
           /\ ab.calls = 0
           /\ ab.evals = 0

\* the sum of the visit counts of the nodes children names
RECURSIVE SumVisits(_, _, _)
SumVisits(t, children, i) ==
    IF i > Len(children) THEN 0
    ELSE t[children[i]].visits + SumVisits(t, children, i + 1)

\* the visit accounting of the claim, for the tree as it stands
VisitsAccounted ==
    /\ tree[1].visits = mc.iterations
    /\ SumVisits(tree, tree[1].children, 1) = mc.iterations

\* C7 as stated: from a root with at least two legal moves, after every N
\* completed iterations the root's visit count is N and its children's
\* visit counts sum to N.
C7_VisitAccounting ==
    (agent = "mcts" /\ pc \in {"loop", "done"} /\ tree # <<>> /\ game[0].n >= 2)
        => VisitsAccounted

\* C7 amended: the same, from a root with at least two legal moves where
\* the game is not over.
C7_VisitAccountingInPlay ==
    (/\ agent = "mcts"
     /\ pc \in {"loop", "done"}
     /\ tree # <<>>
     /\ game[0].n >= 2
     /\ ~IsGameOver(game, Input))
        => VisitsAccounted

\* C7 witness: three iterations are complete from a root in play, and one
\* of them went through a child to a grandchild
C7_Witness ==
    /\ agent = "mcts"
    /\ pc = "loop"
    /\ ~IsGameOver(game, Input)
    /\ mc.iterations = 3
    /\ Len(tree) = 4
    /\ tree[4].parent # 1
    /\ VisitsAccounted

\* node i is on the path from node idx up to the root
RECURSIVE OnPath(_, _, _)
OnPath(t, idx, i) ==
    IF idx = 0 THEN FALSE
    ELSE idx = i \/ OnPath(t, t[idx].parent, i)

\* the colour that made the move leading to node i: the side to move at its
\* parent; for the root, the side that is not to move
MovedInto(t, i) ==
    IF t[i].parent = 0 THEN ~t[i].board.turn
    ELSE t[t[i].parent].board.turn

\* a backpropagation step that adds the result at the nodes reached by a
\* move of colour adds_for and subtracts it at the others
BackpropStep(adds_for) ==
    pc = "rolled" =>
        /\ Len(tree') = Len(tree)
        /\ \A i \in 1 .. Len(tree) :
              IF OnPath(tree, mc.node, i)
              THEN /\ tree'[i].visits = tree[i].visits + 1
                   /\ tree'[i].total_value =
                          IF MovedInto(tree, i) = adds_for
                          THEN tree[i].total_value + mc.result_white
                          ELSE tree[i].total_value - mc.result_white
              ELSE tree'[i] = tree[i]

\* C8 as stated: backpropagation adds one visit at every node of the path
\* to the root, adds the White-perspective result where the node was
\* reached by a Black move and subtracts it where reached by a White move.
C8_AddsAfterBlackMove == [][BackpropStep(BLACK)]_vars

\* C8 amended: backpropagation adds one visit at every node of the path to
\* the root, adds the White-perspective result where the node was reached
\* by a White move (Black is to move there) and subtracts it where reached
\* by a Black move: the value is that of the player who just moved.
C8_AddsAfterWhiteMove == [][BackpropStep(WHITE)]_vars

\* C8 witness: a non-zero result has been backpropagated from a grandchild
\* of the root, through nodes reached by moves of both colours
C8_Witness ==
    /\ pc = "loop"
    /\ mc.iterations >= 1
    /\ mc.result_white # 0
    /\ mc.node # 0
    /\ tree[mc.node].parent \notin {0, 1}
    /\ tree[mc.node].total_value # 0
    /\ tree[tree[mc.node].parent].total_value # 0

\* The games that differ from g only in what the move orderer reads of a
\* move (capture, victim, aggressor): the same positions, moves and
\* evaluations, ranked in other orders.
OrderVariants(g) ==
    {[c \in Positions |-> [g[c] EXCEPT !.mv = f[c]]] :
        f \in [Positions -> {Quiet, PawnTakesQueen}]}

\* C9 as stated: for a fixed position and depth the move the alpha-beta
\* search returns is the same for every order the move orderer could rank
\* the legal moves in.
C9_SameMoveForEveryOrder ==
    (pc = "done" /\ agent = "minimax" /\ InputInPlay)
        => \A g2 \in OrderVariants(game) :
              SearchRoot(g2, Input, depth).move = outcome.move

\* C9 amended: for a fixed position and depth the best score the search
\* finds is the same for every order, and under every order the returned
\* move is one whose exact score is that best score.
C9_SameScoreForEveryOrder ==
    (pc = "done" /\ agent = "minimax")
        => \A g2 \in OrderVariants(game) :
              LET r == SearchRoot(g2, Input, depth)
              IN  /\ r.score = ab.best_score
                  /\ FullRootScore(game, Input, depth, r.move) = ab.best_score

\* C9 witness: a finished search and another order of the root's moves
\* under which the search visits a different number of nodes, yet returns
\* the same move and score
C9_Witness ==
    /\ pc = "done"
    /\ agent = "minimax"
    /\ depth >= 2
    /\ \E g2 \in OrderVariants(game) :
          LET r == SearchRoot(g2, Input, depth)
          IN  /\ OrderedMoves(g2, Input).moves # ab.moves
              /\ r.calls # ab.calls
              /\ r.move = outcome.move
              /\ r.score = ab.best_score

\* the second run has ended as the first did: the same tree (the same
\* expansions, visit counts and values), the same number of rollouts, the
\* same generator state and the same returned move
SameAsFirst ==
    /\ tree = first.tree
    /\ mc.rollouts = first.rollouts
    /\ rng = first.rng
    /\ outcome = first.outcome

AsIfAlone(c) ==
    IF c.agent = "minimax"
    THEN /\ c.outcome.move = SearchRoot(game, Input, depth).move
         /\ c.ab.best_score = SearchRoot(game, Input, depth).score
    ELSE c.tree # <<>> =>
            c.tree = MctsAlone(game, Input, c.mc.rng0, c.mc.iterations).tree

\* the running call, as a record like the parked one
Running ==
    [agent |-> agent, copy |-> heap["copy"], searchRef |-> searchRef,
     pc |-> pc, ab |-> ab, outcome |-> outcome, tree |-> tree, mc |-> mc]

\* C11: concurrent calls share no mutable state, so under every
\* interleaving a call that has returned has built and returned what it
\* would have alone.
C11_ConcurrentAsIfAlone ==
    /\ (pc = "done") => AsIfAlone(Running)
    /\ (parked.pc = "done") => AsIfAlone(parked)

\* the root's children, as a set of node indices
RootChildren == {tree[1].children[i] : i \in 1 .. Len(tree[1].children)}

\* the MCTS loop has ended and the root has a child
EndedWithChildren ==
    /\ pc = "done"
    /\ agent = "mcts"
    /\ tree # <<>>
    /\ tree[1].children # <<>>

\* C12: when the MCTS loop ends and the root has a child, the returned
\* move is the move of a root child no other root child has more visits
\* than.
C12_RobustChild ==
    EndedWithChildren
        => \E c \in RootChildren :
              /\ outcome.move = tree[c].move
              /\ \A d \in RootChildren : tree[d].visits <= tree[c].visits

\* C12 witness: after four iterations the returned child has no fewer
\* visits than the other child, which has the larger mean value
C12_Witness ==
    /\ EndedWithChildren
    /\ mc.iterations = 4
    /\ \E c, d \in RootChildren :
          /\ outcome.move = tree[c].move
          /\ tree[d].visits > 0
          /\ tree[d].visits <= tree[c].visits
          /\ tree[d].total_value * tree[c].visits
                > tree[c].total_value * tree[d].visits

\* the MCTS loop has ended and the root has no child
EndedWithoutChildren ==
    /\ agent = "mcts"
    /\ pc \in {"done", "raised"}
    /\ tree # <<>>
    /\ tree[1].children = <<>>

\* C13: when the deadline passes while the root has no child, _mcts_search
\* does not raise: it returns one of the root's legal moves.
C13_FallbackMove ==
    EndedWithoutChildren
        => /\ pc = "done"
           /\ outcome.kind = "move"
           /\ \E i \in 1 .. Len(mc.legal) : outcome.move = mc.legal[i]
           /\ mc.legal = LegalMoves(game, tree[1].board)

\* C13 witness: a zero time limit, no iteration, and the second legal move
\* returned
C13_Witness ==
    /\ EndedWithoutChildren
    /\ InputInPlay
    /\ time_limit = 0
    /\ mc.iterations = 0
    /\ outcome = [kind |-> "move", move |-> 2]

-----------------------------------------------------------------------------

\* what the piece on square sq counts for White
SignedValue(pl, sq) ==
    IF pl[sq].color = WHITE
    THEN PIECE_VALUES(pl[sq].piece_type) + PST_WHITE(pl[sq].piece_type, sq)
    ELSE -(PIECE_VALUES(pl[sq].piece_type) + PST_BLACK(pl[sq].piece_type, sq))

\* the sum of SignedValue over the squares S, in any order
RECURSIVE SumSigned(_, _)
SumSigned(pl, S) ==
    IF S = {} THEN 0
    ELSE LET sq == CHOOSE x \in S : TRUE
         IN  SignedValue(pl, sq) + SumSigned(pl, S \ {sq})

\* the sum over the occupied squares, rank by rank
RECURSIVE SumRanks(_, _)
SumRanks(pl, ranks) ==
    IF ranks = {} THEN 0
    ELSE LET r == CHOOSE x \in ranks : TRUE
         IN  SumSigned(pl, {sq \in DOMAIN pl : sq \div 8 = r})
             + SumRanks(pl, ranks \ {r})

SumOccupied(pl) == SumRanks(pl, 0 .. 7)

Evaluated == probe.op = "evaluate" /\ probe.returned

\* C14: evaluate returns -CHECKMATE_SCORE when the side to move is
\* checkmated; 0 for a stalemate, insufficient material or a claimable
\* draw; otherwise the sum over the occupied squares of piece value plus
\* piece-square bonus, added for White and subtracted for Black, negated
\* when Black is to move -- so the score with Black to move is the negation
\* of the score of the same placement with White to move.
C14_EvaluateRules ==
    Evaluated =>
        LET pl == probe.placement
            sum == SumOccupied(pl)
        IN  /\ (probe.status = "mate") => probe.result = -CHECKMATE_SCORE
            /\ (probe.status \in {"stale", "dead", "claim"}) => probe.result = 0
            /\ (probe.status = "play") =>
                  /\ probe.result = IF probe.turn = WHITE THEN sum ELSE -sum
                  /\ probe.result =
                        -Evaluate(PlacedGame(pl, "play"), Board(0, ~probe.turn))

\* evaluate has returned for Black to move, a white queen and a black rook
\* on the board
C14_Witness ==
    /\ Evaluated
    /\ probe.status = "play"
    /\ probe.turn = BLACK
    /\ probe.placement = (27 :> [color |-> WHITE, piece_type |-> QUEEN]
                          @@ 52 :> [color |-> BLACK, piece_type |-> ROOK])
    /\ probe.result = -(900 + 5) + (500 + 0)

-----------------------------------------------------------------------------

Abs(x) == IF x < 0 THEN -x ELSE x

\* the most a piece on square sq can add to or take from the score
MaxAbsAt(sq) ==
    LET v(p) == Abs(ScoreSquare([x \in {sq} |-> p], sq))
    IN  v(CHOOSE p \in Pieces : \A q \in Pieces : v(q) <= v(p))

RECURSIVE SumMaxAbs(_)
SumMaxAbs(S) ==
    IF S = {} THEN 0
    ELSE LET sq == CHOOSE x \in S : TRUE
         IN  MaxAbsAt(sq) + SumMaxAbs(S \ {sq})

\* the most the pieces on the squares S can add up to, rank by rank
RECURSIVE MaterialBoundRanks(_, _)
MaterialBoundRanks(S, ranks) ==
    IF ranks = {} THEN 0
    ELSE LET r == CHOOSE x \in ranks : TRUE
         IN  SumMaxAbs({sq \in S : sq \div 8 = r})
             + MaterialBoundRanks(S, ranks \ {r})

MaterialBound(S) == MaterialBoundRanks(S, 0 .. 7)

\* no placement of up to 64 pieces counts more than this
FullBoardBound == MaterialBound(SQUARES)

NegamaxReturned == probe.op = "negamax" /\ probe.returned

\* C15: CHECKMATE_SCORE is strictly greater than the absolute value of
\* every score evaluate returns for a position that is not checkmate -- the
\* score of a placement is at most the sum of the largest values of its
\* squares, and that sum over all 64 squares is below CHECKMATE_SCORE --
\* and every value _negamax returns lies in
\* [-CHECKMATE_SCORE, CHECKMATE_SCORE], inside the root window.
C15_SentinelExceedsMaterial ==
    /\ FullBoardBound < CHECKMATE_SCORE
    /\ (Evaluated /\ probe.status # "mate") =>
          /\ Abs(probe.result) <= MaterialBound(DOMAIN probe.placement)
          /\ MaterialBound(DOMAIN probe.placement) <= FullBoardBound
          /\ Abs(probe.result) < CHECKMATE_SCORE
    /\ NegamaxReturned =>
          /\ -CHECKMATE_SCORE <= probe.result
          /\ probe.result <= CHECKMATE_SCORE

\* evaluate has returned the score of the heaviest full board for White
C15_Witness ==
    /\ Evaluated
    /\ probe.status = "play"
    /\ probe.turn = WHITE
    /\ DOMAIN probe.placement = SQUARES
    /\ probe.result = HeaviestScore
    /\ probe.result = 57415
    /\ FullBoardBound = 57430

-----------------------------------------------------------------------------

\* the placement mirrored vertically (rank r to rank 7 - r), colours swapped
Mirrored(pl) ==
    [sq \in {MIRROR(x) : x \in DOMAIN pl} |->
        [color |-> ~pl[MIRROR(sq)].color, piece_type |-> pl[MIRROR(sq)].piece_type]]

TablesMirrored ==
    \A pt \in PieceTypes, sq \in SQUARES :
        PST_BLACK(pt, MIRROR(sq)) = PST_WHITE(pt, sq)

\* C16: for a position that is not over, the position with the placement
\* mirrored vertically, the colours swapped and the other side to move has
\* the same evaluation; PST_BLACK[kind][mirror(sq)] = PST_WHITE[kind][sq]
\* for every piece kind and square.
C16_MirrorSymmetry ==
    /\ TablesMirrored
    /\ (Evaluated /\ probe.status \in {"claim", "play"}) =>
          probe.result = Evaluate(PlacedGame(Mirrored(probe.placement), probe.status),
                                  Board(0, ~probe.turn))

\* evaluate has returned for a white pawn on d4 and a black knight on e5,
\* on squares where the tables differ between the two halves of the board
C16_Witness ==
    /\ Evaluated
    /\ probe.status = "play"
    /\ probe.turn = WHITE
    /\ probe.placement = (27 :> [color |-> WHITE, piece_type |-> PAWN]
                          @@ 36 :> [color |-> BLACK, piece_type |-> KNIGHT])
    /\ Mirrored(probe.placement) = (35 :> [color |-> BLACK, piece_type |-> PAWN]
                                    @@ 28 :> [color |-> WHITE, piece_type |-> KNIGHT])
    /\ PST_WHITE(PAWN, 27) # PST_WHITE(PAWN, 35)
    /\ probe.result = (100 + 20) - (320 + 20)

-----------------------------------------------------------------------------

Ordered == probe.op = "order" /\ probe.returned

\* where move m stands in the ordered list
PlaceOf(m) == CHOOSE k \in 1 .. Len(probe.result) : probe.result[k] = m

\* the value of the piece a capture takes: a pawn when the target square is
\* empty (en passant)
VictimValue(k) == IF k.victim # None THEN PIECE_VALUES(k.victim) ELSE PIECE_VALUES(PAWN)

PlainCaptures ==
    {m \in 1 .. Len(probe.kinds) :
        probe.kinds[m].capture /\ probe.kinds[m].promotion = None}

\* C17 as stated: of two captures without promotion, the one with the
\* larger (victim value - aggressor value) is never ordered after the other.
C17_RankedByDifference ==
    Ordered =>
        \A i, j \in PlainCaptures :
            LET ki == probe.kinds[i]
                kj == probe.kinds[j]
            IN  (VictimValue(ki) - PIECE_VALUES(ki.aggressor)
                    > VictimValue(kj) - PIECE_VALUES(kj.aggressor))
                => PlaceOf(i) < PlaceOf(j)

\* C17, amended: of two captures without promotion, the one with the larger
\* (10 * victim value - aggressor value) is never ordered after the other;
\* for equal victims that is the less valuable aggressor first.
C17_RankedByWeightedDifference ==
    Ordered =>
        \A i, j \in PlainCaptures :
            LET ki == probe.kinds[i]
                kj == probe.kinds[j]
            IN  /\ (10 * VictimValue(ki) - PIECE_VALUES(ki.aggressor)
                       > 10 * VictimValue(kj) - PIECE_VALUES(kj.aggressor))
                   => PlaceOf(i) < PlaceOf(j)
                /\ (VictimValue(ki) = VictimValue(kj)
                       /\ PIECE_VALUES(ki.aggressor) < PIECE_VALUES(kj.aggressor))
                   => PlaceOf(i) < PlaceOf(j)

\* pawn takes knight (difference 220) is ordered after queen takes queen
\* (difference 0)
C17_Witness ==
    /\ Ordered
    /\ Len(probe.kinds) = 2
    /\ probe.kinds[1] = [capture |-> TRUE, victim |-> KNIGHT, aggressor |-> PAWN,
                         promotion |-> None, check |-> FALSE]
    /\ probe.kinds[2] = [capture |-> TRUE, victim |-> QUEEN, aggressor |-> QUEEN,
                         promotion |-> None, check |-> FALSE]
    /\ probe.keys = <<-23100, -28100>>
    /\ probe.result = <<2, 1>>

-----------------------------------------------------------------------------

ProbeMoves == 1 .. Len(probe.kinds)

ChecksOnly(m) == ~probe.kinds[m].capture /\ probe.kinds[m].check

\* C18: in the list _ordered_moves returns every capture precedes every
\* non-capturing move that gives check, and every such move precedes every
\* other non-capturing move, promotions included; moves with equal keys keep
\* the order of the oracle's enumeration; the list is a permutation of the
\* legal moves.
C18_CapturesChecksOthers ==
    Ordered =>
        /\ Len(probe.result) = Len(probe.kinds)
        /\ \A m \in ProbeMoves : \E k \in 1 .. Len(probe.result) : probe.result[k] = m
        /\ \A i, j \in ProbeMoves :
              /\ (probe.kinds[i].capture /\ ChecksOnly(j)) => PlaceOf(i) < PlaceOf(j)
              /\ (ChecksOnly(i) /\ ~probe.kinds[j].capture /\ ~ChecksOnly(j))
                 => PlaceOf(i) < PlaceOf(j)
              /\ (probe.keys[i] = probe.keys[j] /\ i < j) => PlaceOf(i) < PlaceOf(j)

\* a promotion to a queen that neither captures nor checks, enumerated
\* first, is ordered behind a checking move of a king
C18_Witness ==
    /\ Ordered
    /\ Len(probe.kinds) = 2
    /\ probe.kinds[1] = [capture |-> FALSE, victim |-> None, aggressor |-> PAWN,
                         promotion |-> QUEEN, check |-> FALSE]
    /\ probe.kinds[2] = [capture |-> FALSE, victim |-> None, aggressor |-> KING,
                         promotion |-> None, check |-> TRUE]
    /\ probe.keys = <<-900, -10000>>
    /\ probe.result = <<2, 1>>

-----------------------------------------------------------------------------

\* C19: for every configured depth, 0 included, and every position with a
\* legal move, the search is bounded by the depth: no position more than
\* depth plies below the root is reached, and the search runs to completion
\* (it does not end with the call stack exhausted).
C19_BoundedByDepth ==
    (agent = "minimax" /\ game[0].n >= 1) =>
        /\ ab.deepest <= depth
        /\ outcome.kind # "RecursionError"

-----------------------------------------------------------------------------

\* every node below the root has been backpropagated through
AllBackpropagated == \A i \in 2 .. Len(tree) : tree[i].visits >= 1

BetweenIterations == agent = "mcts" /\ pc \in {"loop", "done"} /\ tree # <<>>

InIteration == agent = "mcts" /\ pc \in {"selected", "expanded", "rolled"}

\* C20: the deadline is looked at only between iterations.  An iteration
\* starts only while the deadline has not passed; once it has passed, the
\* next step of the loop is the return, and the search eventually returns.
\* A started iteration goes through expansion, rollout and backpropagation
\* whatever the clock says, and is counted; between iterations, and at the
\* return, every node of the tree below the root has been backpropagated.
C20_DeadlineBetweenIterations ==
    /\ [][(pc = "loop" /\ pc' = "selected") => now < mc.deadline]_vars
    /\ [][(pc = "loop" /\ ~(now < mc.deadline)) => pc' = "done"]_vars
    /\ [][InIteration =>
             /\ pc' = CASE pc = "selected" -> "expanded"
                        [] pc = "expanded" -> "rolled"
                        [] pc = "rolled" -> "loop"
             /\ (pc = "rolled") => mc'.iterations = mc.iterations + 1]_vars
    /\ [](BetweenIterations => AllBackpropagated)
    /\ InIteration ~> BetweenIterations
    /\ (agent = "mcts" /\ pc = "loop") ~> (pc = "done")

\* the search has returned after an iteration that began before the
\* deadline and ended behind it; the child it expanded has its visit
C20_Witness ==
    /\ agent = "mcts"
    /\ pc = "done"
    /\ mc.iterations >= 1
    /\ now > mc.deadline
    /\ Len(tree) = mc.iterations + 1
    /\ AllBackpropagated
    /\ tree[1].visits = mc.iterations

-----------------------------------------------------------------------------
\* the requests that ended with a move applied to the game
Applied == {c \in Clients : requests[c].st = "done" /\ requests[c].status = 200}

\* C21: A move that make_move applies to a game is a legal move of the
\* position that was handed to the agent, and the board it is pushed on is
\* still that position: under every interleaving of make_move requests on
\* one game no move selected for an earlier position is applied.
C21_NoStaleMoveApplied ==
    \A c \in Applied :
        /\ IsLegal(game, requests[c].copy, requests[c].move)
        /\ requests[c].applied_to = requests[c].copy

-----------------------------------------------------------------------------
\* C22: play_move commits the move it is given.  When the move validated
\* as legal, the call ends without error, the move in its answer is the
\* move argument, and the move pushed by its request is that move; when
\* the move did not validate the answer is an error.
C22_PlayMoveCommitsGivenMove ==
    mcp.st = "done" =>
        IF mcp.valid
        THEN /\ ~mcp.reply.error
             /\ mcp.reply.move = mcp.move
             /\ requests["mcp"].move = FromUci(mcp.move).move
        ELSE mcp.reply.error

-----------------------------------------------------------------------------
\* the API outcomes of the call so far are HTTP status errors, request
\* errors and reply texts
ListedOutcomes ==
    \A k \in 1 .. Len(probe.outcomes) :
        probe.outcomes[k].kind \in {"status", "request", "reply"}

\* the k-th outcome is a reply with a legal move in it
LegalReply(k) ==
    /\ probe.outcomes[k].kind = "reply"
    /\ ~ParseUciMove(game, probe.board, probe.outcomes[k].raw).none

\* C23: LLMAgent.select_move on a position with legal moves sends at most
\* 3 requests; it returns on the first reply that holds a legal move, with
\* that move; after 3 attempts that failed by HTTP status error, request
\* error or a reply without a legal move it returns a random legal move;
\* so it returns a legal move of the given position and does not raise.
C23_LlmReturnsLegalMove ==
    (probe.op = "llm" /\ Len(LegalMoves(game, probe.board)) > 0 /\ ListedOutcomes) =>
        /\ probe.requests <= 3
        /\ probe.pc # "raised"
        /\ Len(probe.outcomes) <= probe.requests
        /\ \A k \in 1 .. Len(probe.outcomes) :
              LegalReply(k) =>
                 /\ k = Len(probe.outcomes)
                 /\ probe.pc = "returned"
                 /\ probe.requests = k
                 /\ probe.result =
                       ParseUciMove(game, probe.board, probe.outcomes[k].raw).move
        /\ (probe.pc = "requesting") =>
              /\ probe.requests = Len(probe.outcomes) + 1
              /\ \A k \in 1 .. Len(probe.outcomes) : ~LegalReply(k)
        /\ (probe.pc = "returned") =>
              /\ IsLegal(game, probe.board, probe.result)
              /\ probe.requests = Len(probe.outcomes)
              /\ LegalReply(Len(probe.outcomes)) \/ Len(probe.outcomes) = 3

\* three failures of three kinds, then the fallback move
C23_Witness ==
    /\ probe.op = "llm"
    /\ probe.pc = "returned"
    /\ probe.requests = 3
    /\ Len(probe.outcomes) = 3
    /\ probe.outcomes[1].kind = "status"
    /\ probe.outcomes[2].kind = "request"
    /\ probe.outcomes[3] = [kind |-> "reply", raw |-> <<NoUci, Uci([by |-> ~probe.board.turn, i |-> 1])>>]
    /\ IsLegal(game, probe.board, probe.result)
    /\ probe.result.i = 2

-----------------------------------------------------------------------------
\* the last apply_move call on the game
LastApply == probe.op = "apply_move" /\ probe.called

\* C24: apply_move with a move that is not legal raises ValueError and
\* leaves board, moves, timestamps and result as they were; with a legal
\* move it pushes the move and appends one entry to moves and one to
\* timestamps; after any sequence of calls moves and timestamps are as long
\* as the board's move stack.
C24_ApplyMoveRecords ==
    \A id \in GameIds :
        LET gm == GAMES[id]
        IN  /\ Len(gm.moves) = Len(gm.board.stack)
            /\ Len(gm.timestamps) = Len(gm.board.stack)
            /\ LastApply =>
                  /\ probe.raised = ~IsLegal(game, probe.before.board, probe.move)
                  /\ probe.raised => gm = probe.before
                  /\ ~probe.raised =>
                        /\ gm.board = Push(probe.before.board, probe.move.i)
                        /\ gm.moves = Append(probe.before.moves, Uci(probe.move))
                        /\ Len(gm.timestamps) = Len(probe.before.timestamps) + 1

\* a refused move after two applied ones
C24_Witness ==
    /\ LastApply
    /\ probe.raised
    /\ probe.move.by # GAMES["g1"].board.turn
    /\ Len(GAMES["g1"].moves) = 2
    /\ Len(GAMES["g1"].timestamps) = 2
    /\ GAMES["g1"] = probe.before

-----------------------------------------------------------------------------
\* C30: After any sequence of apply_move calls the stored result is None
\* exactly when the game is not over; when the game is over it equals
\* get_result(), one of "1-0", "0-1", "1/2-1/2"; and get_result() is "*"
\* exactly when the game is not over.
C30_ResultMatchesBoard ==
    \A id \in DOMAIN GAMES :
        LET gm == GAMES[id]
        IN  /\ (gm.result = "None") <=> ~GameIsOver(game, gm)
            /\ GameIsOver(game, gm) =>
                  /\ gm.result = GetResult(game, gm)
                  /\ gm.result \in {"1-0", "0-1", "1/2-1/2"}
            /\ (GetResult(game, gm) = "*") <=> ~GameIsOver(game, gm)

-----------------------------------------------------------------------------
\* the step ends a request of client c with an error
EndsWithError(c) ==
    /\ requests'[c] # requests[c]
    /\ requests'[c].st = "done"
    /\ requests'[c].status # 200

\* C29: Under every interleaving of make_move requests on one game, once
\* the game is over (a claimable draw included) no step pushes a move on
\* its board or changes its result, and a request that ends with an error
\* (404, 400) leaves the games as they were.
C29_NoMoveOnceOver ==
    [][/\ \A id \in DOMAIN GAMES :
             GameIsOver(game, GAMES[id]) => GAMES'[id] = GAMES[id]
       /\ \A c \in Clients : EndsWithError(c) => GAMES' = GAMES]_vars

-----------------------------------------------------------------------------
\* every _negamax call and every _move_order_key call on board b and on the
\* boards the search reaches from it within d plies returns with the board
\* as it was given
RECURSIVE BalancedBelow(_, _, _)
BalancedBelow(b, d, windows) ==
    /\ \A w \in windows : Negamax(game, b, d, w[1], w[2]).board = b
    /\ \A k \in 1 .. Len(LegalMoves(game, b)) :
          MoveOrderKey(game, b, LegalMoves(game, b)[k]).board = b
    /\ (d > 0 /\ ~IsGameOver(game, b)) =>
          \A k \in 1 .. Len(LegalMoves(game, b)) :
              BalancedBelow(Push(b, LegalMoves(game, b)[k]), d - 1, Windows)

\* C25: Pushes and pops are balanced in the alpha-beta search: every
\* _negamax call and every _move_order_key call returns with the board as
\* at its entry, also after a beta cutoff; every root move is pushed on the
\* same parent position; and the board given to _search_root is unchanged
\* when it returns.
C25_PushPopBalanced ==
    (agent = "minimax" /\ searchRef # "none") =>
        /\ (pc = "root_pushed") =>
              /\ heap[searchRef] = Push(heap["caller"], ab.moves[ab.i])
              /\ BalancedBelow(heap[searchRef], depth - 1,
                               Windows \cup {<<-ab.beta, -ab.alpha>>})
        /\ (pc = "root_scored") =>
              heap[searchRef] = Push(heap["caller"], ab.moves[ab.i])
        /\ (pc \in {"root_loop", "done", "raised"}) =>
              heap[searchRef] = heap["caller"]

\* a finished depth-3 search in which a beta cutoff left moves unsearched
C25_Witness ==
    /\ pc = "done"
    /\ agent = "minimax"
    /\ depth = 3
    /\ ab.calls < FullCalls(game, heap["caller"], depth) - 1
    /\ game[0].n = 2
    /\ heap[searchRef] = heap["caller"]
    /\ heap[searchRef].stack = <<>>

-----------------------------------------------------------------------------
\* the rollout that starts from the node of the iteration
RolloutNow == Rollout(game, tree[mc.node].board, rng)

\* the positions a rollout moved away from were not over
PlayedOn(b, sim) ==
    \A j \in (Len(b.stack) + 1) .. Len(sim.stack) :
        game[sim.stack[j].pos].status \notin {"mate", "stale", "dead"}

\* C26: A rollout plays at most 40 plies on a clone of the node's board
\* and stops before the cutoff exactly when the game is over; the node's
\* board is unchanged; a finished game gives +1 for a White win, -1 for a
\* Black win, 0 for a draw; every result lies within [-1, 1] (values in
\* thousandths).
C26_RolloutBounded ==
    /\ [](pc = "expanded" =>
            LET b == tree[mc.node].board
                ro == RolloutNow
            IN  /\ ro.plies <= 40
                /\ Len(ro.sim.stack) = Len(b.stack) + ro.plies
                /\ SubSeq(ro.sim.stack, 1, Len(b.stack)) = b.stack
                /\ PlayedOn(b, ro.sim)
                /\ (ro.plies < 40) => IsGameOver(game, ro.sim)
                /\ IsGameOver(game, ro.sim) =>
                      ro.result =
                         IF IsCheckmate(game, ro.sim)
                         THEN (IF ro.sim.turn = BLACK THEN 1000 ELSE -1000)
                         ELSE 0
                /\ ~IsGameOver(game, ro.sim) =>
                      ro.result = TanhMilli(game[ro.sim.pos].material)
                /\ -1000 <= ro.result /\ ro.result <= 1000)
    /\ [][(pc = "expanded" /\ pc' = "rolled") =>
              /\ tree' = tree
              /\ mc'.result_white = RolloutNow.result
              /\ -1000 <= mc'.result_white /\ mc'.result_white <= 1000]_vars

\* a rollout from a child node that reaches the cutoff, Black a queen up
C26_Witness ==
    /\ pc = "expanded"
    /\ agent = "mcts"
    /\ mc.node > 1
    /\ RolloutNow.plies = 40
    /\ ~IsGameOver(game, RolloutNow.sim)
    /\ RolloutNow.result = -716

-----------------------------------------------------------------------------
\* the elements of a list
Range(xs) == {xs[k] : k \in 1 .. Len(xs)}

\* the moves of the children of node i
ChildMoves(i) == {tree[c].move : c \in Range(tree[i].children)}

\* C27: At every point of an MCTS search, for every node, the untried
\* moves and the moves of the children partition the legal moves of the
\* node's position: no move is in both, none twice, none missing; every
\* child holds the parent's position after the child's move; terminal
\* nodes have no children.
C27_UntriedAndChildrenPartition ==
    \A i \in 1 .. Len(tree) :
        LET nd == tree[i]
            legal == Range(LegalMoves(game, nd.board))
        IN  /\ Range(nd.untried_moves) \cup ChildMoves(i) = legal
            /\ Range(nd.untried_moves) \cap ChildMoves(i) = {}
            /\ Len(nd.untried_moves) + Len(nd.children) = Cardinality(legal)
            /\ \A k \in 1 .. Len(nd.children) :
                  LET c == nd.children[k]
                  IN  /\ c \in 2 .. Len(tree)
                      /\ tree[c].parent = i
                      /\ tree[c].board = Push(nd.board, tree[c].move)
            /\ IsTerminal(game, nd) => nd.children = <<>>

\* a root with both moves expanded, a grandchild, a node with a move left
\* and a terminal node that has legal moves
C27_Witness ==
    /\ agent = "mcts"
    /\ Len(tree) >= 4
    /\ Len(tree[1].children) = 2
    /\ tree[1].untried_moves = <<>>
    /\ \E i \in 2 .. Len(tree) :
          tree[i].children # <<>> /\ tree[i].untried_moves # <<>>
    /\ \E i \in 2 .. Len(tree) :
          /\ IsTerminal(game, tree[i])
          /\ Len(tree[i].untried_moves) = 2
          /\ tree[i].visits >= 1

-----------------------------------------------------------------------------
\* _select, started at node idx, descends only from nodes that have a
\* child and a visit, and compares only children that have a visit
RECURSIVE DescentDefined(_)
DescentDefined(idx) ==
    IF ~IsTerminal(game, tree[idx]) /\ IsFullyExpanded(tree[idx])
    THEN /\ Len(tree[idx].children) >= 1
         /\ tree[idx].visits >= 1
         /\ \A k \in 1 .. Len(tree[idx].children) :
               tree[tree[idx].children[k]].visits >= 1
         /\ DescentDefined(MaxChildFrom(tree, tree[idx].children, 2,
                                        tree[idx].visits, tree[idx].children[1]))
    ELSE TRUE

\* C28: Between MCTS iterations every node below the root has at least one
\* visit, and every node below the root that is not terminal has one visit
\* more than its children together; so wherever _select descends the node
\* has a child and a visit: log(parent_visits) and the division by
\* node.visits are defined and max has a non-empty list.
C28_VisitsBetweenIterations ==
    (agent = "mcts" /\ pc \in {"loop", "done"} /\ tree # <<>>) =>
        /\ \A i \in 2 .. Len(tree) :
              /\ tree[i].visits >= 1
              /\ ~IsTerminal(game, tree[i]) =>
                    tree[i].visits = 1 + SumVisits(tree, tree[i].children, 1)
        /\ DescentDefined(1)

\* the next selection descends two levels: the root and one of its
\* children are fully expanded
C28_Witness ==
    /\ agent = "mcts"
    /\ pc = "loop"
    /\ now < mc.deadline
    /\ Len(tree) >= 4
    /\ IsFullyExpanded(tree[1])
    /\ ~IsTerminal(game, tree[1])
    /\ \E k \in 1 .. Len(tree[1].children) :
          LET c == tree[1].children[k]
          IN  /\ c = MaxChildFrom(tree, tree[1].children, 2, tree[1].visits,
                                  tree[1].children[1])
              /\ IsFullyExpanded(tree[c])
              /\ ~IsTerminal(game, tree[c])
              /\ tree[c].visits = 2
              /\ Len(tree[c].children) = 1

====
